---- MODULE Spec2Model ----
(***************************************************************************)
(* UnifiedFlowEditor: the editor state controller of the dynamic Flow      *)
(* specification (screens, routing table, default routes, branch rules)    *)
(* and its debounced persistence.                                          *)
(*                                                                         *)
(* A JS object used as a map is a TLA+ function whose DOMAIN is the set of *)
(* keys present.  null, undefined and '' are the strings Null, Undef and   *)
(* Empty; Truthy(x) is JS truthiness on the values the editor handles.     *)
(* A screen's component tree is abstracted to the sequence of its blocks'  *)
(* `name` fields (Empty for a text block, which has none).  A branch rule  *)
(* keeps `field` and `next`; `op` and `value` decide nothing here.         *)
(*                                                                         *)
(* props.currentSpec and props.flowJsonFromDb are records whose `type` is  *)
(* the JS type of the value.  urlsMatch, of the webhook components of the  *)
(* same file, is modelled on strings held as sequences of characters.      *)
(***************************************************************************)
EXTENDS Integers, Sequences, FiniteSets, TLC

VARIABLES
    spec,            \* useState<DynamicFlowSpecV1>(initialSpec)
    activeScreenId,  \* useState<string>
    dirty,           \* useState(false)
    mounted,         \* the first render's effects have run
    migratedRef,     \* useRef(false)
    timer,           \* the pending setTimeouts of the auto-save effect, each held
                     \* as the spec in the closure of its save()
    isSaving,        \* props.isSaving, owned by the parent
    currentSpec,     \* props.currentSpec: its keys dynamicFlow, booking and form
    flowJsonFromDb,  \* props.flowJsonFromDb
    hasCanonical,    \* props.currentSpec.dynamicFlow is an object
    initialSpec,     \* useMemo over props.currentSpec / flowJsonFromDb / flowName
    inFlight,        \* specs handed to props.onSave whose save has not completed
    lastCall,        \* history: the most recent props.onSave call
    editDuringSave,  \* history: an edit made while a save was in flight is unsaved
    lastDone,        \* history: how the most recent save ended
    afterFailure,    \* history: since a save failed with no call after it: "failed",
                     \* "pending" when an edit was waiting, "edited" once edited
    lastOp,          \* history: the most recent mutation and the state it acted on
    editsLeft,       \* updateSpec calls still to explore (exploration bound)
    url1,            \* urlsMatch: its first argument
    url2,            \* urlsMatch: its second argument
    matched,         \* urlsMatch: "true" or "false" as returned, "none" before the call
    titledScreen,    \* a screen's title and data, as patchScreenById reads them
    lastTitleEdit,   \* history: the most recent title edit and the screen it acted on
    webhookSubscription, \* the query's data: ok, hierarchy, smartzapWebhookUrl
    activeWebhook,   \* what findActiveLevel and findActiveUrl returned
    banner,          \* WebhookAlertBanner: isDismissed, isLoading, mounted or not
    localStorage,    \* localStorage.getItem(DISMISS_KEY)
    now,             \* Date.now(), in hours
    webApp,          \* window.Telegram?.WebApp
    provider,        \* TelegramSDKProvider: isReady, isMock, timer, last action
    cacheRow,        \* the templates row: header_media_preview_url, _expires_at, _hash
    preview,         \* ensureHeaderMediaPreviewUrl: its position, inputs and result
    download         \* tryDownloadBinary: its position, requests and result

vars == <<spec, activeScreenId, dirty, mounted, migratedRef, timer, isSaving,
          currentSpec, flowJsonFromDb, hasCanonical, initialSpec, inFlight, lastCall, editDuringSave,
          lastDone, afterFailure, lastOp, editsLeft, url1, url2, matched,
          titledScreen, lastTitleEdit, webhookSubscription, activeWebhook, banner,
          localStorage, now, webApp, provider, cacheRow, preview, download>>

----------------------------------------------------------------------------
(* Bounds of the exploration *)

MaxEdits == 3
MaxSaveEdits == 2
MaxScreens == 3
MaxBlocks == 2
MaxRules == 1
MaxIndex == 30
MaxPropsEdits == 1

(* Program constants *)

CandidateLimit == 2000
AlphabetSize == 26

----------------------------------------------------------------------------
(* JS values *)

Null == "<null>"
Undef == "<undefined>"
Empty == ""

Truthy(x) == x \notin {Null, Undef, Empty}

Max(a, b) == IF a >= b THEN a ELSE b

SeqToSet(s) == {s[i] : i \in 1..Len(s)}

\* arr.findIndex((x) => x.id === id), 1-based; 0 when absent (JS: -1)
FindIndexById(s, id) ==
    IF \E i \in 1..Len(s) : s[i].id = id
    THEN CHOOSE i \in 1..Len(s) :
             /\ s[i].id = id
             /\ \A j \in 1..(i - 1) : s[j].id # id
    ELSE 0

\* { ...obj, [key]: value }
Put(obj, key, value) ==
    [k \in DOMAIN obj \cup {key} |-> IF k = key THEN value ELSE obj[k]]

\* obj?.[key] with a fallback for a missing key
Get(obj, key, missing) == IF key \in DOMAIN obj THEN obj[key] ELSE missing

EmptyObj == [k \in {} |-> Null]

----------------------------------------------------------------------------
(* Screen identifiers *)

Letters == <<"A", "B", "C", "D", "E", "F", "G", "H", "I", "J", "K", "L", "M",
             "N", "O", "P", "Q", "R", "S", "T", "U", "V", "W", "X", "Y", "Z">>

\* String.fromCharCode(65 + r)
fromCharCode65(r) == Letters[r + 1]

\* do { r = n % 26; out = chr(65 + r) + out; n = floor(n / 26) - 1 } while (n >= 0)
RECURSIVE indexToLettersLoop(_, _)
indexToLettersLoop(n, out) ==
    LET r == n % AlphabetSize
        out2 == fromCharCode65(r) \o out
        n2 == (n \div AlphabetSize) - 1
    IN IF n2 >= 0 THEN indexToLettersLoop(n2, out2) ELSE out2

indexToLetters(index) ==
    LET out == indexToLettersLoop(Max(0, index), Empty)
    IN IF out = Empty THEN "A" ELSE out

\* String(s || '').toUpperCase() on the identifiers of the model: the only ones
\* with lower-case letters are the two below.
toUpperCase(s) ==
    CASE s = "screen_a" -> "SCREEN_A"
      [] s = "screen_b" -> "SCREEN_B"
      [] s \in {Null, Undef} -> Empty
      [] OTHER -> s

Candidate(i) == "SCREEN_" \o indexToLetters(i)

RECURSIVE FirstFree(_, _)
FirstFree(i, used) ==
    IF i >= CandidateLimit THEN Candidate(0)
    ELSE IF Candidate(i) \notin used THEN Candidate(i)
    ELSE FirstFree(i + 1, used)

makeNextScreenIdCaseSensitive(existing) == FirstFree(0, SeqToSet(existing))

makeNextScreenId(existing) ==
    FirstFree(0, {toUpperCase(existing[i]) : i \in 1..Len(existing)})

----------------------------------------------------------------------------
(* Screens *)

ScreenIds(s) == {s.screens[i].id : i \in 1..Len(s.screens)}

IdSeq(s) == [i \in 1..Len(s.screens) |-> s.screens[i].id]

IndexOfScreen(s, id) == FindIndexById(s.screens, id)

\* getBlocksForScreen(screen).map(b => String(b?.name || '').trim()).filter(Boolean)
FieldNamesOf(screen) == SelectSeq(screen.blocks, LAMBDA n : Truthy(n))

guessActionType(screen) ==
    IF screen.action.type \in {"data_exchange", "navigate", "complete"}
    THEN screen.action.type
    ELSE IF screen.terminal THEN "complete" ELSE "navigate"

guessCtaLabel(screen) ==
    IF Truthy(screen.action.label) THEN screen.action.label
    ELSE IF screen.terminal THEN "Concluir" ELSE "Continuar"

----------------------------------------------------------------------------
(* lib/dynamic-flow: the normalizer and the validator *)

Action(type, label, screen, payload) ==
    [type |-> type, label |-> label, screen |-> screen, payload |-> payload]

\* payload is the set of field names n mapped to ${form.n}; NoPayload when the
\* action has no payload key.
NoPayload == {Undef}

DefaultScreen ==
    [id |-> "SCREEN_A", terminal |-> TRUE, blocks |-> <<>>,
     action |-> Action("complete", "Concluir", Undef, NoPayload)]

ScreenById(screens, id) == screens[FindIndexById(screens, id)]

\* A terminal screen's action is forced to `complete`.
NormalizeScreen(s) ==
    IF s.terminal THEN [s EXCEPT !.action.type = "complete"] ELSE s

\* The route of a screen, recomputed from its action and terminal flag.
RouteOf(s, ids) ==
    IF ~s.terminal /\ s.action.type = "navigate" /\ s.action.screen \in ids
    THEN <<s.action.screen>>
    ELSE <<>>

NormalizeRule(r, ids) == IF r.next \in ids THEN r ELSE [r EXCEPT !.next = Null]

normalizeDynamicFlowSpec(raw) ==
    LET screens0 == IF Len(raw.screens) = 0 THEN <<DefaultScreen>> ELSE raw.screens
        screens == [i \in 1..Len(screens0) |-> NormalizeScreen(screens0[i])]
        ids == {screens[i].id : i \in 1..Len(screens)}
    IN [screens |-> screens,
        routingModel |-> [id \in ids |-> RouteOf(ScreenById(screens, id), ids)],
        defaultNextByScreen |->
            [id \in ids |->
                LET v == Get(raw.defaultNextByScreen, id, Null)
                IN IF v \in ids THEN v ELSE Null],
        branchesByScreen |->
            [id \in ids |->
                LET rules == Get(raw.branchesByScreen, id, <<>>)
                IN [i \in 1..Len(rules) |-> NormalizeRule(rules[i], ids)]]]

HasDuplicates(s) == \E i, j \in 1..Len(s) : i < j /\ s[i] = s[j]

validateDynamicFlowSpec(s) ==
    LET ids == ScreenIds(s)
        route(id) == Get(s.routingModel, id, <<>>)
        dflt(id) == Get(s.defaultNextByScreen, id, Null)
        rules(id) == Get(s.branchesByScreen, id, <<>>)
    IN UNION {
         {<<"no_next", x.id>> : x \in
             {y \in SeqToSet(s.screens) :
                 ~y.terminal /\ dflt(y.id) = Null /\ Len(rules(y.id)) = 0}},
         {<<"duplicate_name", x.id>> : x \in
             {y \in SeqToSet(s.screens) : HasDuplicates(FieldNamesOf(y))}},
         {<<"unknown_field", x.id>> : x \in
             {y \in SeqToSet(s.screens) :
                 \E i \in 1..Len(rules(y.id)) :
                     rules(y.id)[i].field \notin SeqToSet(FieldNamesOf(y))}},
         {<<"dangling", id>> : id \in
             {y \in ids :
                 \/ \E i \in 1..Len(route(y)) : route(y)[i] \notin ids
                 \/ dflt(y) \notin ids \cup {Null}
                 \/ \E i \in 1..Len(rules(y)) : rules(y)[i].next \notin ids \cup {Null}}}
       }

----------------------------------------------------------------------------
(* lib/dynamic-flow: the compiler and the converters of the stored shapes *)

\* A prop of unknown shape is a record with its JS `typeof` in `type`; a
\* non-object is undefined, a string or a number.
JsUndefined == [type |-> "undefined"]

JsString == [type |-> "string"]

JsNumber == [type |-> "number"]

\* v && typeof v === 'object'
IsObject(v) == v.type = "object"

\* props.currentSpec: the keys the editor reads
CurrentSpec(dynamicFlow, booking, form) ==
    [dynamicFlow |-> dynamicFlow, booking |-> booking, form |-> form]

\* currentSpec.dynamicFlow as an object: the stored spec and, when present, the
\* flow JSON kept inside it
DynamicFlowObject(raw, flowJson) ==
    [type |-> "object", raw |-> raw, flowJson |-> flowJson]

NoCurrentSpec == CurrentSpec(JsUndefined, JsUndefined, JsUndefined)

\* The vendor screen compiled from a screen: its children, its footer with the
\* on-click action, and the lowered routing (branch rules, then the default).
VendorScreen(s, screen) ==
    [id |-> screen.id,
     terminal |-> screen.terminal,
     children |-> screen.blocks,
     footer |-> [label |-> screen.action.label,
                 on_click_action |-> screen.action.type,
                 next |-> screen.action.screen,
                 payload |-> screen.action.payload],
     branches |-> Get(s.branchesByScreen, screen.id, <<>>),
     fallthrough |-> Get(s.defaultNextByScreen, screen.id, Null)]

generateDynamicFlowJson(s) ==
    [type |-> "object",
     data_api_version |-> JsString,
     routing_model |-> [type |-> "object", routes |-> s.routingModel],
     screens |-> [i \in 1..Len(s.screens) |-> VendorScreen(s, s.screens[i])]]

\* The raw spec read back from a vendor flow JSON
dynamicFlowSpecFromJson(flowJson) ==
    LET vs == flowJson.screens
        ids == {vs[i].id : i \in 1..Len(vs)}
        of(id) == vs[FindIndexById(vs, id)]
    IN [screens |->
            [i \in 1..Len(vs) |->
                [id |-> vs[i].id, terminal |-> vs[i].terminal,
                 blocks |-> vs[i].children,
                 action |-> Action(vs[i].footer.on_click_action, vs[i].footer.label,
                                   vs[i].footer.next, vs[i].footer.payload)]],
        routingModel |->
            IF IsObject(flowJson.routing_model) THEN flowJson.routing_model.routes
            ELSE EmptyObj,
        defaultNextByScreen |-> [id \in ids |-> of(id).fallthrough],
        branchesByScreen |-> [id \in ids |-> of(id).branches]]

\* The legacy form spec read from a flow JSON without routing: the fields of
\* its first screen
flowJsonToFormSpec(flowJson) ==
    [type |-> "object",
     fields |-> IF Len(flowJson.screens) > 0 THEN flowJson.screens[1].children ELSE <<>>]

\* A legacy form becomes one terminal screen holding its fields
formSpecToDynamicSpec(form) ==
    normalizeDynamicFlowSpec(
        [screens |-> << [id |-> "FORM", terminal |-> TRUE, blocks |-> form.fields,
                         action |-> Action("complete", "Enviar", Undef, NoPayload)] >>,
         routingModel |-> EmptyObj,
         defaultNextByScreen |-> EmptyObj,
         branchesByScreen |-> [k \in {} |-> <<>>]])

\* A booking config becomes the booking flow: a screen that sends the chosen
\* service to the endpoint
bookingConfigToDynamicSpec(booking) ==
    normalizeDynamicFlowSpec(
        [screens |-> << [id |-> "BOOKING_START", terminal |-> TRUE,
                         blocks |-> booking.services,
                         action |-> Action("complete", "Agendar", Undef, NoPayload)] >>,
         routingModel |-> EmptyObj,
         defaultNextByScreen |-> EmptyObj,
         branchesByScreen |-> [k \in {} |-> <<>>]])

----------------------------------------------------------------------------
(* updateSpec and the updaters handed to it *)

\* The UX rule without its `&& s.terminal` test: every screen that has a route
\* gets the navigate action and its label again
UxRuleIgnoringTerminal(s, routingModel) ==
    LET r == Get(routingModel, s.id, <<>>)
        nextId == IF Len(r) > 0 THEN r[1] ELSE Undef
    IN IF Truthy(nextId)
       THEN [s EXCEPT !.terminal = FALSE,
                      !.action = [s.action EXCEPT !.type = "navigate",
                                                  !.label = "Continuar",
                                                  !.screen = nextId]]
       ELSE s

\* updateSpec with the UX rule taken out
UxRuleRemoved(s, routingModel) == s

\* Regra UX: a screen that has a next screen cannot be "final".
UxRule(s, routingModel) ==
    LET r == Get(routingModel, s.id, <<>>)
        nextId == IF Len(r) > 0 THEN r[1] ELSE Undef
    IN IF Truthy(nextId) /\ s.terminal
       THEN [s EXCEPT !.terminal = FALSE,
                      !.action = [s.action EXCEPT !.type = "navigate",
                                                  !.label = "Continuar",
                                                  !.screen = nextId]]
       ELSE s

updateSpecNoNormalize(nextDraft) == nextDraft

\* updateSpec whose UX rule reads the draft's routingModel, not the normalized one
updateSpecUxOnDraft(nextDraft) ==
    LET normalized == normalizeDynamicFlowSpec(nextDraft)
        screens == [i \in 1..Len(normalized.screens) |->
                       UxRule(normalized.screens[i], nextDraft.routingModel)]
    IN normalizeDynamicFlowSpec([normalized EXCEPT !.screens = screens])

\* What updateSpec does with the normalized draft: the UX rule on every screen,
\* then normalizeDynamicFlowSpec({ ...normalized, screens })
ApplyUxRule(normalized) ==
    LET screens == [i \in 1..Len(normalized.screens) |->
                       UxRule(normalized.screens[i], normalized.routingModel)]
    IN normalizeDynamicFlowSpec([normalized EXCEPT !.screens = screens])

\* The value setSpec stores for the draft an updater returned.
updateSpec(nextDraft) == ApplyUxRule(normalizeDynamicFlowSpec(nextDraft))

ActiveIndex(s, active) == IndexOfScreen(s, active)

\* activeIndex >= 0 ? spec.screens[activeIndex] : spec.screens[0]
ActiveScreen(s, active) ==
    IF ActiveIndex(s, active) > 0 THEN s.screens[ActiveIndex(s, active)] ELSE s.screens[1]

\* spec.routingModel?.[activeScreen?.id]?.[0] || ''
nextScreenIdOf(s, active) ==
    LET routes == Get(s.routingModel, ActiveScreen(s, active).id, <<>>)
    IN IF Len(routes) > 0 /\ Truthy(routes[1]) THEN routes[1] ELSE Empty

RouteTo(next) == IF Truthy(next) THEN <<next>> ELSE <<>>

setDefaultNextForActive(prev, active, next) ==
    [prev EXCEPT
        !.defaultNextByScreen = Put(prev.defaultNextByScreen, active, next),
        !.routingModel = Put(prev.routingModel, active, RouteTo(next))]

setBranchesForActive(prev, active, rules) ==
    [prev EXCEPT !.branchesByScreen = Put(prev.branchesByScreen, active, rules)]

\* patchActiveScreen({ terminal })
patchActiveTerminal(prev, active, checked) ==
    LET idx == IndexOfScreen(prev, active)
    IN IF idx = 0 THEN prev
       ELSE [prev EXCEPT !.screens[idx].terminal = checked]

\* setBlocksForScreen through setActiveBlocks
setActiveBlocks(prev, active, nextBlocks) ==
    LET idx == IndexOfScreen(prev, active)
    IN IF idx = 0 THEN prev
       ELSE [prev EXCEPT !.screens[idx].blocks = nextBlocks]

\* patch.label / patch.nextScreenId are Undef when the key is absent
updateCtaForScreen(prev, screenId, label, nextScreenId) ==
    LET idx == IndexOfScreen(prev, screenId)
    IN IF idx = 0 THEN prev
       ELSE
         LET current == prev.screens[idx]
             terminal == current.terminal
             nextLabel == IF label # Undef THEN label ELSE guessCtaLabel(current)
             r == Get(prev.routingModel, screenId, <<>>)
             nextTo == IF nextScreenId # Undef THEN nextScreenId
                       ELSE IF Len(r) > 0 /\ Truthy(r[1]) THEN r[1] ELSE Empty
             type == IF terminal THEN "complete" ELSE guessActionType(current)
             action == [current.action EXCEPT
                          !.type = type,
                          !.label = nextLabel,
                          !.screen = IF type = "navigate" /\ ~terminal
                                     THEN (IF Truthy(nextTo) THEN nextTo ELSE Undef)
                                     ELSE @]
         IN [prev EXCEPT
                !.screens[idx].action = action,
                !.routingModel =
                    Put(prev.routingModel, screenId,
                        IF terminal THEN <<>> ELSE RouteTo(nextTo))]

\* patch.type / patch.label / patch.nextScreenId are Undef when the key is absent
setCta(prev, active, type, label, nextScreenId) ==
    LET idx == IndexOfScreen(prev, active)
    IN IF idx = 0 THEN prev
       ELSE
         LET current == prev.screens[idx]
             terminal == current.terminal
             nextType == IF Truthy(type) THEN type ELSE guessActionType(current)
             nextLabel == IF label # Undef THEN label ELSE guessCtaLabel(current)
             d == Get(prev.defaultNextByScreen, current.id, Null)
             r == Get(prev.routingModel, current.id, <<>>)
             nextTo == IF nextScreenId # Undef THEN nextScreenId
                       ELSE IF Truthy(d) THEN d
                       ELSE IF Len(r) > 0 /\ Truthy(r[1]) THEN r[1] ELSE Empty
             ends == terminal \/ nextType = "complete"
             action ==
                 Action(IF terminal THEN "complete" ELSE nextType,
                        nextLabel,
                        IF ~terminal /\ nextType = "navigate" /\ Truthy(nextTo)
                        THEN nextTo ELSE Undef,
                        IF ~terminal /\ nextType = "data_exchange"
                        THEN SeqToSet(FieldNamesOf(current))
                        ELSE NoPayload)
         IN [prev EXCEPT
                !.screens[idx].action = action,
                !.routingModel =
                    Put(prev.routingModel, current.id,
                        IF ends THEN <<>> ELSE RouteTo(nextTo)),
                !.defaultNextByScreen =
                    Put(prev.defaultNextByScreen, current.id,
                        IF ends THEN Null
                        ELSE IF Truthy(nextTo) THEN nextTo ELSE Null)]

NewScreen(id) ==
    [id |-> id, terminal |-> TRUE, blocks |-> <<Empty>>,
     action |-> Action("complete", "Enviar", Undef, NoPayload)]

\* handleAddScreen that appends the new screen and leaves the last one as it was
handleAddScreenNoRelink(prev) ==
    LET nextId == makeNextScreenId(IdSeq(prev))
    IN [prev EXCEPT
           !.screens = Append(prev.screens, NewScreen(nextId)),
           !.routingModel = Put(prev.routingModel, nextId, <<>>),
           !.defaultNextByScreen = Put(prev.defaultNextByScreen, nextId, Null)]

\* The draft handleAddScreen's updater returns.
handleAddScreen(prev) ==
    LET nextId == makeNextScreenId(IdSeq(prev))
        lastIndex == Len(prev.screens)
        last == prev.screens[lastIndex]
        wasTerminal == last.terminal \/ last.action.type = "complete"
        relinked ==
            [last EXCEPT
                !.terminal = FALSE,
                !.action = [last.action EXCEPT
                    !.type = "navigate",
                    !.label = IF wasTerminal THEN "Continuar"
                              ELSE IF Truthy(last.action.label) THEN last.action.label
                              ELSE "Continuar",
                    !.screen = nextId]]
        nextScreens ==
            IF lastIndex >= 1
            THEN Append([prev.screens EXCEPT ![lastIndex] = relinked], NewScreen(nextId))
            ELSE <<NewScreen(nextId)>>
        routing1 == IF lastIndex >= 1 THEN Put(prev.routingModel, last.id, <<nextId>>)
                    ELSE prev.routingModel
        default1 == IF lastIndex >= 1 THEN Put(prev.defaultNextByScreen, last.id, nextId)
                    ELSE prev.defaultNextByScreen
    IN [prev EXCEPT
           !.screens = nextScreens,
           !.routingModel = Put(routing1, nextId, <<>>),
           !.defaultNextByScreen = Put(default1, nextId, Null)]

\* handleRemoveScreen that leaves the other screens' references as they were
handleRemoveScreenNoCascade(prev, active) ==
    IF Len(prev.screens) <= 1 THEN prev
    ELSE [prev EXCEPT !.screens = SelectSeq(prev.screens, LAMBDA x : x.id # active)]

\* A removal with no `if (prev.screens.length <= 1) return prev` before the
\* filters
handleRemoveScreenNoGuard(prev, active) ==
    LET nextScreens == SelectSeq(prev.screens, LAMBDA x : x.id # active)
        ids == {nextScreens[i].id : i \in 1..Len(nextScreens)}
    IN [prev EXCEPT
           !.screens = nextScreens,
           !.routingModel =
               [id \in ids |-> SelectSeq(Get(prev.routingModel, id, <<>>),
                                          LAMBDA y : y \in ids)],
           !.defaultNextByScreen =
               [id \in ids |->
                   LET v == Get(prev.defaultNextByScreen, id, Null)
                   IN IF v \in ids THEN v ELSE Null],
           !.branchesByScreen =
               [id \in ids |->
                   SelectSeq(Get(prev.branchesByScreen, id, <<>>),
                             LAMBDA r : r.next = Null \/ r.next \in ids)]]

\* The draft handleRemoveScreen's updater returns.
handleRemoveScreen(prev, active) ==
    IF Len(prev.screens) <= 1 THEN prev
    ELSE
      LET nextScreens == SelectSeq(prev.screens, LAMBDA x : x.id # active)
          ids == {nextScreens[i].id : i \in 1..Len(nextScreens)}
          firstOf(id) ==
              LET kept == SelectSeq(Get(prev.routingModel, id, <<>>), LAMBDA y : y \in ids)
              IN IF Len(kept) > 0 /\ Truthy(kept[1]) THEN <<kept[1]>> ELSE <<>>
          rawOf(id) ==
              LET v == Get(prev.defaultNextByScreen, id, Null)
              IN IF Truthy(v) THEN v ELSE Null
          cleaned(id) ==
              SelectSeq(Get(prev.branchesByScreen, id, <<>>),
                     LAMBDA r : r.next = Null \/ r.next \in ids)
      IN [prev EXCEPT
             !.screens = nextScreens,
             !.routingModel = [id \in ids |-> firstOf(id)],
             !.defaultNextByScreen =
                 [id \in ids |-> IF rawOf(id) \in ids THEN rawOf(id) ELSE Null],
             !.branchesByScreen =
                 [id \in {x \in ids : Len(cleaned(x)) > 0} |-> cleaned(id)]]

\* A removal that only takes the screen out of the list
removeActiveScreenOnlyFilters(prev, active) ==
    [prev EXCEPT !.screens = SelectSeq(prev.screens, LAMBDA x : x.id # active)]

\* The spec handleRemoveScreen stores: its updater's draft, through updateSpec.
removeActiveScreen(prev, active) == updateSpec(handleRemoveScreen(prev, active))

----------------------------------------------------------------------------
(* The component's render cycle: state, props and effects *)

FieldNames == {"a"}

NoCall ==
    [kind |-> "none", hadIssues |-> FALSE, overlapped |-> FALSE,
     carriedLateEdit |-> FALSE, afterFailure |-> "none",
     specIsCurrent |-> TRUE, jsonIsCompiled |-> TRUE, keysKept |-> TRUE]

NoDone == [outcome |-> "none", retained |-> TRUE]

Cur ==
    [spec |-> spec, activeScreenId |-> activeScreenId, dirty |-> dirty,
     migratedRef |-> migratedRef, timer |-> timer, isSaving |-> isSaving,
     hasCanonical |-> hasCanonical, initialSpec |-> initialSpec,
     inFlight |-> inFlight, lastCall |-> lastCall,
     editDuringSave |-> editDuringSave, lastDone |-> lastDone,
     afterFailure |-> afterFailure, currentSpec |-> currentSpec,
     flowJsonFromDb |-> flowJsonFromDb]

Commit(st) ==
    \E c \in {st} :
        /\ spec' = c.spec
        /\ activeScreenId' = c.activeScreenId
        /\ dirty' = c.dirty
        /\ migratedRef' = c.migratedRef
        /\ timer' = c.timer
        /\ isSaving' = c.isSaving
        /\ hasCanonical' = c.hasCanonical
        /\ initialSpec' = c.initialSpec
        /\ inFlight' = c.inFlight
        /\ lastCall' = c.lastCall
        /\ editDuringSave' = c.editDuringSave
        /\ lastDone' = c.lastDone
        /\ afterFailure' = c.afterFailure
        /\ currentSpec' = c.currentSpec
        /\ flowJsonFromDb' = c.flowJsonFromDb
        /\ UNCHANGED <<url1, url2, matched, titledScreen, lastTitleEdit,
                       webhookSubscription, activeWebhook, banner, localStorage, now,
                       webApp, provider, cacheRow, preview, download>>

issues(s) == validateDynamicFlowSpec(s)

canSave(st) == issues(st.spec) = {} /\ st.dirty /\ ~st.isSaving

\* A patch that spreads no baseSpec: { spec: { dynamicFlow: s }, flowJson }
PatchWithoutBaseSpec(baseSpec, s, generatedJson) ==
    [spec |-> [NoCurrentSpec EXCEPT !.dynamicFlow = DynamicFlowObject(s, JsUndefined)],
     flowJson |-> generatedJson]

\* { spec: { ...baseSpec, dynamicFlow: s }, flowJson: generatedJson }
Patch(baseSpec, s, generatedJson) ==
    [spec |-> [baseSpec EXCEPT !.dynamicFlow = DynamicFlowObject(s, JsUndefined)],
     flowJson |-> generatedJson]

\* props.onSave(patch): the parent receives the patch; the call is recorded
\* against the state the component is in when it is made
onSave(st, patch, kind) ==
    LET s == patch.spec.dynamicFlow.raw
    IN [st EXCEPT
        !.inFlight = Append(@, s),
        !.lastCall = [kind |-> kind,
                      hadIssues |-> issues(s) # {},
                      overlapped |-> st.isSaving \/ Len(st.inFlight) > 0,
                      carriedLateEdit |-> st.editDuringSave /\ s = st.spec,
                      afterFailure |-> st.afterFailure,
                      specIsCurrent |->
                          patch.spec.dynamicFlow = DynamicFlowObject(st.spec, JsUndefined),
                      jsonIsCompiled |->
                          patch.flowJson = generateDynamicFlowJson(patch.spec.dynamicFlow.raw),
                      keysKept |->
                          /\ patch.spec.booking = st.currentSpec.booking
                          /\ patch.spec.form = st.currentSpec.form],
        !.editDuringSave = IF s = st.spec THEN FALSE ELSE @,
        !.afterFailure = "none"]

\* save(): the closure holds the spec, the generatedJson and the
\* props.currentSpec of the render that created it
save(st, r, kind) ==
    [onSave(st, Patch(r.currentSpec, r.spec, generateDynamicFlowJson(r.spec)), kind)
        EXCEPT !.dirty = FALSE]

\* The re-sync effect without its `if (dirty) return`
ResyncEffectIgnoringDirty(st, fingerprintChanged) ==
    IF fingerprintChanged
    THEN [st EXCEPT
            !.spec = st.initialSpec,
            !.activeScreenId =
                IF st.activeScreenId \in ScreenIds(st.initialSpec)
                THEN st.activeScreenId
                ELSE st.initialSpec.screens[1].id]
    ELSE st

\* The re-sync effect on initialFingerprint
ResyncEffect(st, fingerprintChanged) ==
    IF fingerprintChanged /\ ~st.dirty
    THEN [st EXCEPT
            !.spec = st.initialSpec,
            !.activeScreenId =
                IF st.activeScreenId \in ScreenIds(st.initialSpec)
                THEN st.activeScreenId
                ELSE st.initialSpec.screens[1].id]
    ELSE st

\* The migration effect without `if (migratedRef.current) return`
MigrationEffectWithoutRef(st, r) ==
    IF r.dirty \/ r.hasCanonical THEN st
    ELSE [onSave(st, Patch(r.currentSpec, r.spec, generateDynamicFlowJson(r.spec)),
                 "migration")
            EXCEPT !.migratedRef = TRUE]

\* The silent migration effect; `r` is the render whose closure it runs in
MigrationEffect(st, r) ==
    IF r.dirty \/ st.migratedRef \/ r.hasCanonical THEN st
    ELSE [onSave(st, Patch(r.currentSpec, r.spec, generateDynamicFlowJson(r.spec)),
                 "migration")
            EXCEPT !.migratedRef = TRUE]

\* The auto-save effect with props.isSaving missing from its dependency list:
\* a render in which only isSaving changed neither clears nor sets the timer.
TimerEffectWithoutIsSavingDep(st, r) ==
    IF r.spec = spec /\ r.dirty = dirty /\ r.isSaving # isSaving THEN st
    ELSE [st EXCEPT !.timer =
            IF r.dirty /\ issues(r.spec) = {} /\ ~r.isSaving THEN <<r.spec>> ELSE <<>>]

\* The auto-save effect without its `if (!dirty) return`: it sets a timer after
\* every render whose spec has no issues while no save is reported.
TimerEffectIgnoringDirty(st, r) ==
    [st EXCEPT !.timer =
        IF issues(r.spec) = {} /\ ~r.isSaving THEN <<r.spec>> ELSE <<>>]

\* The auto-save effect without its `return () => clearTimeout(t)`
TimerEffectWithoutCleanup(st, r) ==
    [st EXCEPT !.timer =
        @ \o (IF r.dirty /\ issues(r.spec) = {} /\ ~r.isSaving THEN <<r.spec>> ELSE <<>>)]

\* The auto-save effect: its cleanup clears the timer the previous run set,
\* and a new timer is set when the guards pass.
TimerEffect(st, r) ==
    LET afterCleanup == <<>>
    IN [st EXCEPT !.timer =
           afterCleanup
           \o (IF r.dirty /\ issues(r.spec) = {} /\ ~r.isSaving THEN <<r.spec>> ELSE <<>>)]

\* One render with the values of `r`, and the effects it runs, in source order.
\* A re-sync stores a new spec, so a second render follows.
Render(r, fingerprintChanged) ==
    LET pass1 == TimerEffect(MigrationEffect(ResyncEffect(r, fingerprintChanged), r), r)
    IN IF pass1.spec = r.spec /\ pass1.dirty = r.dirty THEN pass1
       ELSE TimerEffect(MigrationEffect(pass1, pass1), pass1)

----------------------------------------------------------------------------
(* Initial states: the spec the editor builds from its props *)

Rule(field, next) == [field |-> field, next |-> next]

RawSpec(screens, defaults, branches) ==
    [screens |-> screens, routingModel |-> EmptyObj,
     defaultNextByScreen |-> defaults, branchesByScreen |-> branches]

\* {}: nothing stored yet
RawEmpty == RawSpec(<<>>, EmptyObj, [k \in {} |-> <<>>])

\* Two screens, the first with a field, a default route and a branch rule
RawTwoScreens ==
    RawSpec(
        << [id |-> "SCREEN_A", terminal |-> FALSE, blocks |-> <<"a">>,
            action |-> Action("navigate", "Continuar", "SCREEN_B", NoPayload)],
           [id |-> "SCREEN_B", terminal |-> TRUE, blocks |-> <<Empty>>,
            action |-> Action("complete", "Enviar", Undef, NoPayload)] >>,
        [k \in {"SCREEN_A"} |-> "SCREEN_B"],
        [k \in {"SCREEN_A"} |-> <<Rule("a", "SCREEN_B")>>])

\* A stored flow whose only screen sends its form to the endpoint and has no
\* destination configured
RawLegacy ==
    RawSpec(
        << [id |-> "screen_a", terminal |-> FALSE, blocks |-> <<"a">>,
            action |-> Action("data_exchange", "Continuar", Undef, {"a"})] >>,
        EmptyObj,
        [k \in {} |-> <<>>])

RawInputs == {RawEmpty, RawTwoScreens, RawLegacy}

\* The two screens again, the first button carrying a label the user typed
RawRelabelled == [RawTwoScreens EXCEPT !.screens[1].action.label = "Ir adiante"]

\* !!flowJson?.routing_model
JsTruthy(v) == v.type # "undefined"

\* The initial spec with the form spec tried before the booking config
initialSpecFormBeforeBooking(s, flowJson) ==
    IF IsObject(s.dynamicFlow) /\ IsObject(s.dynamicFlow.flowJson)
    THEN normalizeDynamicFlowSpec(dynamicFlowSpecFromJson(s.dynamicFlow.flowJson))
    ELSE IF IsObject(s.dynamicFlow)
    THEN normalizeDynamicFlowSpec(s.dynamicFlow.raw)
    ELSE IF IsObject(s.form)
    THEN formSpecToDynamicSpec(s.form)
    ELSE IF IsObject(s.booking)
    THEN bookingConfigToDynamicSpec(s.booking)
    ELSE IF IsObject(flowJson)
    THEN (IF JsTruthy(flowJson.routing_model) \/ flowJson.data_api_version.type = "string"
          THEN normalizeDynamicFlowSpec(dynamicFlowSpecFromJson(flowJson))
          ELSE formSpecToDynamicSpec(flowJsonToFormSpec(flowJson)))
    ELSE normalizeDynamicFlowSpec(RawEmpty)

\* useMemo(() => ..., [props.currentSpec, props.flowJsonFromDb, props.flowName])
initialSpecOf(s, flowJson) ==
    IF IsObject(s.dynamicFlow) /\ IsObject(s.dynamicFlow.flowJson)
    THEN normalizeDynamicFlowSpec(dynamicFlowSpecFromJson(s.dynamicFlow.flowJson))
    ELSE IF IsObject(s.dynamicFlow)
    THEN normalizeDynamicFlowSpec(s.dynamicFlow.raw)
    ELSE IF IsObject(s.booking)
    THEN bookingConfigToDynamicSpec(s.booking)
    ELSE IF IsObject(s.form)
    THEN formSpecToDynamicSpec(s.form)
    ELSE IF IsObject(flowJson)
    THEN (IF JsTruthy(flowJson.routing_model) \/ flowJson.data_api_version.type = "string"
          THEN normalizeDynamicFlowSpec(dynamicFlowSpecFromJson(flowJson))
          ELSE formSpecToDynamicSpec(flowJsonToFormSpec(flowJson)))
    ELSE normalizeDynamicFlowSpec(RawEmpty)

\* The stored flow JSON of a record whose spec was `raw`
StoredJson(raw) == generateDynamicFlowJson(normalizeDynamicFlowSpec(raw))

Input(s, flowJson) == [currentSpec |-> s, flowJsonFromDb |-> flowJson]

\* The form spec a migrated record still carries beside its canonical spec
LegacyForm == [type |-> "object", fields |-> <<"a">>]

\* The records the editor is opened on in the runs below: a canonical spec
\* stored, nothing stored, or only the flow JSON stored
EditorInputs ==
    {Input(CurrentSpec(DynamicFlowObject(raw, JsUndefined), JsUndefined,
                       IF raw = RawLegacy THEN LegacyForm ELSE JsUndefined),
           JsUndefined) : raw \in RawInputs}
    \cup {Input(NoCurrentSpec, JsUndefined)}
    \cup {Input(NoCurrentSpec, StoredJson(raw)) : raw \in {RawTwoScreens, RawLegacy}}

\* Every shape of the props the initial spec distinguishes
DynamicFlowShapes ==
    {JsUndefined, JsString,
     DynamicFlowObject(RawTwoScreens, JsUndefined),
     DynamicFlowObject(RawTwoScreens, JsString),
     DynamicFlowObject(RawTwoScreens, StoredJson(RawRelabelled))}

BookingShapes == {JsUndefined, JsString, [type |-> "object", services |-> <<"service">>]}

FormShapes == {JsUndefined, [type |-> "object", fields |-> <<"nome">>]}

FlowJsonShapes ==
    LET json == StoredJson(RawLegacy)
    IN {JsUndefined, JsString, json,
        [json EXCEPT !.data_api_version = JsUndefined],
        [json EXCEPT !.routing_model = JsUndefined],
        [json EXCEPT !.routing_model = JsUndefined, !.data_api_version = JsUndefined],
        [json EXCEPT !.routing_model = JsUndefined, !.data_api_version = JsNumber]}

PropsInputs ==
    {Input(CurrentSpec(d, b, f), j) :
        d \in DynamicFlowShapes, b \in BookingShapes, f \in FormShapes,
        j \in FlowJsonShapes}

InitFrom(inputs, budget) ==
    /\ editsLeft = budget
    /\ \E in \in inputs :
         /\ currentSpec = in.currentSpec
         /\ flowJsonFromDb = in.flowJsonFromDb
    /\ hasCanonical = IsObject(currentSpec.dynamicFlow)
    /\ initialSpec = initialSpecOf(currentSpec, flowJsonFromDb)
    /\ spec = initialSpec
    /\ activeScreenId = initialSpec.screens[1].id
    /\ dirty = FALSE
    /\ mounted = FALSE
    /\ migratedRef = FALSE
    /\ timer = <<>>
    /\ isSaving \in BOOLEAN
    /\ inFlight = IF isSaving THEN <<initialSpec>> ELSE <<>>
    /\ lastCall = NoCall
    /\ editDuringSave = FALSE
    /\ lastDone = NoDone
    /\ afterFailure = "none"
    /\ lastOp = [name |-> "none", prev |-> spec, prevActive |-> activeScreenId]

InitWith(budget) == InitFrom(EditorInputs, budget)

\* The editor calls no urlsMatch
NoUrls == url1 = JsUndefined /\ url2 = JsUndefined /\ matched = "none"

\* The other components of the repository, each not running unless named in
\* `running`.
Idle(running) ==
    /\ IF "title" \in running THEN TRUE
       ELSE titledScreen = JsUndefined /\ lastTitleEdit = JsUndefined
    /\ IF "webhook" \in running THEN TRUE
       ELSE /\ webhookSubscription = JsUndefined /\ activeWebhook = JsUndefined
            /\ banner = JsUndefined /\ localStorage = JsUndefined /\ now = 0
    /\ IF "telegram" \in running THEN TRUE
       ELSE webApp = JsUndefined /\ provider = JsUndefined
    /\ IF "preview" \in running THEN TRUE
       ELSE cacheRow = JsUndefined /\ preview = JsUndefined /\ download = JsUndefined

\* The variables of UnifiedFlowEditor and of urlsMatch
editorVars ==
    <<spec, activeScreenId, dirty, mounted, migratedRef, timer, isSaving, currentSpec,
      flowJsonFromDb, hasCanonical, initialSpec, inFlight, lastCall, editDuringSave,
      lastDone, afterFailure, lastOp, editsLeft, url1, url2, matched>>

\* The editor and urlsMatch not running
EditorIdle ==
    /\ InitFrom({Input(NoCurrentSpec, JsUndefined)}, 0)
    /\ ~isSaving
    /\ NoUrls

----------------------------------------------------------------------------
(* urlsMatch of WebhookStatusIndicator and of WebhookAlertBanner: the two
   functions have the same body *)

JsNull == [type |-> "null"]

\* A string, as the sequence of its characters
Chars(s) == [type |-> "string", chars |-> s]

LowerLetters == <<"a", "b", "c", "d", "e", "f", "g", "h", "i", "j", "k", "l", "m",
                  "n", "o", "p", "q", "r", "s", "t", "u", "v", "w", "x", "y", "z">>

\* u.replace(/\/$/, '').toLowerCase()
normalize(u) ==
    LET stripped == IF Len(u) > 0 /\ u[Len(u)] = "/" THEN SubSeq(u, 1, Len(u) - 1) ELSE u
    IN [i \in 1..Len(stripped) |->
           IF \E k \in 1..Len(Letters) : Letters[k] = stripped[i]
           THEN LowerLetters[CHOOSE k \in 1..Len(Letters) : Letters[k] = stripped[i]]
           ELSE stripped[i]]

urlsMatch(a, b) ==
    IF a.type # "string" \/ b.type # "string" THEN FALSE
    ELSE IF a.chars = <<>> \/ b.chars = <<>> THEN FALSE
    ELSE normalize(a.chars) = normalize(b.chars)

\* The URLs of the runs: a protocol, a host in either case, an optional slash
UrlText(protocol, host, slash) == protocol \o <<":", "/", "/">> \o host \o slash

Protocols == {<<"h", "t", "t", "p">>, <<"h", "t", "t", "p", "s">>}

Hosts == {<<"z", "a", "p">>, <<"Z", "A", "P">>, <<"b", "o", "t">>}

Slashes == {<<>>, <<"/">>}

UrlArgs ==
    {Chars(UrlText(p, h, s)) : p \in Protocols, h \in Hosts, s \in Slashes}
    \cup {JsNull, JsUndefined, Chars(<<>>)}

----------------------------------------------------------------------------
(* Actions *)

\* The effects of the first render
Mount ==
    /\ ~mounted
    /\ mounted' = TRUE
    /\ Commit(Render(Cur, FALSE))
    /\ UNCHANGED <<lastOp, editsLeft>>

\* updateSpec(updater): setSpec(...) and setDirty(true), then the render
Edit(name, nextSpec, nextActive) ==
    /\ mounted
    /\ editsLeft > 0
    /\ editsLeft' = editsLeft - 1
    /\ lastOp' = [name |-> name, prev |-> spec, prevActive |-> activeScreenId]
    /\ Commit(Render([Cur EXCEPT
                        !.spec = nextSpec,
                        !.activeScreenId = nextActive,
                        !.dirty = TRUE,
                        !.editDuringSave = @ \/ isSaving \/ Len(inFlight) > 0,
                        !.afterFailure = IF @ = "failed" THEN "edited" ELSE @],
                     FALSE))
    /\ UNCHANGED mounted

OtherScreens == ScreenIds(spec) \ {activeScreenId}

\* Tabs onValueChange
SelectTab ==
    /\ mounted
    /\ \E id \in OtherScreens :
         Commit(Render([Cur EXCEPT !.activeScreenId = id], FALSE))
    /\ UNCHANGED <<mounted, lastOp, editsLeft>>

AddScreen ==
    /\ Len(spec.screens) < MaxScreens
    /\ Edit("addScreen", updateSpec(handleAddScreen(spec)), makeNextScreenId(IdSeq(spec)))

\* "Remover tela" is disabled while there is a single screen
RemoveScreen ==
    /\ Len(spec.screens) > 1
    /\ LET draft == handleRemoveScreen(spec, activeScreenId)
       IN Edit("removeScreen", removeActiveScreen(spec, activeScreenId),
               draft.screens[1].id)

\* The "Tela final" switch: patchActiveScreen, then setCta, in one event
SwitchTerminal ==
    LET checked == ~ActiveScreen(spec, activeScreenId).terminal
        first == updateSpec(patchActiveTerminal(spec, activeScreenId, checked))
        second == updateSpec(setCta(first, activeScreenId,
                                    IF checked THEN "complete" ELSE "navigate",
                                    Undef,
                                    IF checked THEN Empty
                                    ELSE nextScreenIdOf(spec, activeScreenId)))
    IN Edit("switchTerminal", second, activeScreenId)

\* "Texto do botão"
SetCtaLabel ==
    \E label \in {"Ok"} :
        Edit("setCtaLabel", updateSpec(setCta(spec, activeScreenId, Undef, label, Undef)),
             activeScreenId)

\* "Ir para", disabled on a terminal screen and on a `complete` action
SetCtaNext ==
    /\ ~ActiveScreen(spec, activeScreenId).terminal
    /\ guessActionType(ActiveScreen(spec, activeScreenId)) # "complete"
    /\ \E next \in {Empty} \cup OtherScreens :
         Edit("setCtaNext", updateSpec(setCta(spec, activeScreenId, Undef, Undef, next)),
              activeScreenId)

\* InspectorPanel onUpdateCta, one key of the patch per event
UpdateCta ==
    \E id \in ScreenIds(spec) :
      \E patch \in {<<"Ok", Undef>>} \cup
                   {<<Undef, next>> : next \in {Empty} \cup (ScreenIds(spec) \ {id})} :
        Edit("updateCta", updateSpec(updateCtaForScreen(spec, id, patch[1], patch[2])),
             activeScreenId)

\* "Destino padrão"
SetDefaultNext ==
    \E next \in {Null} \cup OtherScreens :
        Edit("setDefaultNext",
             updateSpec(setDefaultNextForActive(spec, activeScreenId, next)),
             activeScreenId)

activeBranches == Get(spec.branchesByScreen, activeScreenId, <<>>)

pathFieldOptions == SeqToSet(FieldNamesOf(ActiveScreen(spec, activeScreenId)))

\* The rule lists the "Caminhos" panel can hand to setBranchesForActive
BranchEdits ==
    LET rules == activeBranches
        n == Len(rules)
    IN UNION {
         IF pathFieldOptions # {} /\ n < MaxRules
         THEN {Append(rules, Rule(FieldNamesOf(ActiveScreen(spec, activeScreenId))[1], Null))}
         ELSE {},
         {[rules EXCEPT ![i].field = f] : i \in 1..n, f \in pathFieldOptions},
         {[rules EXCEPT ![i].next = x] : i \in 1..n, x \in {Null} \cup OtherScreens},
         {[j \in 1..(n - 1) |-> IF j < i THEN rules[j] ELSE rules[j + 1]] : i \in 1..n}
       }

SetBranches ==
    \E rules \in BranchEdits :
        Edit("setBranches",
             updateSpec(setBranchesForActive(spec, activeScreenId, rules)),
             activeScreenId)

blocks == ActiveScreen(spec, activeScreenId).blocks

\* addBlock / removeBlock / moveBlock / updateBlock, all through setActiveBlocks
BlockEdits ==
    LET n == Len(blocks)
        swap(i, j) == [blocks EXCEPT ![i] = blocks[j], ![j] = blocks[i]]
    IN UNION {
         IF n < MaxBlocks THEN {Append(blocks, x) : x \in FieldNames \cup {Empty}} ELSE {},
         {[j \in 1..(n - 1) |-> IF j < i THEN blocks[j] ELSE blocks[j + 1]] : i \in 1..n},
         {swap(i, i + 1) : i \in 1..(n - 1)},
         IF n > 0 THEN {blocks} ELSE {}
       }

EditBlocks ==
    \E nextBlocks \in BlockEdits :
        Edit("editBlocks",
             updateSpec(setActiveBlocks(spec, activeScreenId, nextBlocks)),
             activeScreenId)

\* The debounce timer fires: save() of the render that set it
TimerFire ==
    /\ mounted
    /\ \E i \in 1..Len(timer) :
       \E fired \in {[Cur EXCEPT !.timer = SubSeq(timer, 1, i - 1)
                                           \o SubSeq(timer, i + 1, Len(timer))]} :
       \E closure \in {[Cur EXCEPT !.spec = timer[i]]} :
       \E saved \in {save(fired, closure, "timer")} :
          Commit(Render(saved, FALSE))
    /\ UNCHANGED <<mounted, lastOp, editsLeft>>

\* "Salvar agora", disabled unless canSave
SaveNow ==
    /\ mounted
    /\ canSave(Cur)
    /\ Commit(Render(save(Cur, Cur, "explicit"), FALSE))
    /\ UNCHANGED <<mounted, lastOp, editsLeft>>

\* The parent reflects a save it was handed in props.isSaving
ParentRaisesIsSaving ==
    /\ mounted
    /\ Len(inFlight) > 0
    /\ ~isSaving
    /\ Commit(Render([Cur EXCEPT !.isSaving = TRUE], FALSE))
    /\ UNCHANGED <<mounted, lastOp, editsLeft>>

\* The oldest save completes. When it stored the record, the parent hands the
\* stored spec back in props.currentSpec; when it failed the props stay.
SaveCompletes ==
    /\ mounted
    /\ Len(inFlight) > 0
    /\ isSaving
    /\ \E stored \in BOOLEAN :
       \E saved \in {inFlight[1]} :
       \E nextCurrent \in
             {IF stored
              THEN [currentSpec EXCEPT
                       !.dynamicFlow = DynamicFlowObject(saved, JsUndefined)]
              ELSE currentSpec} :
       \E nextJson \in {IF stored THEN generateDynamicFlowJson(saved) ELSE flowJsonFromDb} :
       \E nextInitial \in {initialSpecOf(nextCurrent, nextJson)} :
       \E r \in {[Cur EXCEPT
                     !.inFlight = Tail(inFlight),
                     !.isSaving = Len(inFlight) > 1,
                     !.currentSpec = nextCurrent,
                     !.flowJsonFromDb = nextJson,
                     !.hasCanonical = IsObject(nextCurrent.dynamicFlow),
                     !.initialSpec = nextInitial,
                     !.afterFailure = IF stored THEN @
                                      ELSE IF dirty THEN "pending" ELSE "failed"]} :
       \E c \in {Render(r, nextInitial # initialSpec)} :
          Commit([c EXCEPT !.lastDone =
              [outcome |-> IF stored THEN "stored" ELSE "failed",
               retained |-> c.dirty \/ Len(c.inFlight) > 0 \/ c.spec = saved]])
    /\ UNCHANGED <<mounted, lastOp, editsLeft>>

\* The editor mutations
Mutation ==
    \/ AddScreen
    \/ RemoveScreen
    \/ SwitchTerminal
    \/ SetCtaLabel
    \/ SetCtaNext
    \/ UpdateCta
    \/ SetDefaultNext
    \/ SetBranches
    \/ EditBlocks

\* The editor under any sequence of mutations, of a record that has its
\* canonical spec stored
Init == InitWith(MaxEdits) /\ hasCanonical /\ ~isSaving /\ NoUrls /\ Idle({})

Next ==
    \/ Mount
    \/ SelectTab
    \/ Mutation

Spec == Init /\ [][Next]_vars

\* The editor, its timer and the parent's saves; the editor may be constructed
\* while the parent is still saving (props.isSaving = true).  The save path reads the spec
\* only through its value and its issue list, so the mutations that add and
\* remove issues stand for the rest.
SaveInit == InitWith(MaxSaveEdits) /\ NoUrls /\ Idle({})

SaveNext ==
    \/ Mount
    \/ AddScreen
    \/ RemoveScreen
    \/ SwitchTerminal
    \/ SetDefaultNext
    \/ TimerFire
    \/ SaveNow
    \/ ParentRaisesIsSaving
    \/ SaveCompletes

SaveSpec == SaveInit /\ [][SaveNext]_vars

\* The editor opened on every shape of its props, and its first mutations
PropsInit == InitFrom(PropsInputs, MaxPropsEdits) /\ NoUrls /\ Idle({})

PropsNext ==
    \/ Mount
    \/ Mutation

PropsSpec == PropsInit /\ [][PropsNext]_vars

\* urlsMatch called on every pair of arguments
UrlInit ==
    /\ InitFrom({Input(NoCurrentSpec, JsUndefined)}, 0)
    /\ ~isSaving
    /\ url1 \in UrlArgs
    /\ url2 \in UrlArgs
    /\ matched = "none"
    /\ Idle({})

CallUrlsMatch ==
    /\ matched = "none"
    /\ matched' = IF urlsMatch(url1, url2) THEN "true" ELSE "false"
    /\ UNCHANGED <<spec, activeScreenId, dirty, mounted, migratedRef, timer, isSaving,
                   currentSpec, flowJsonFromDb, hasCanonical, initialSpec, inFlight,
                   lastCall, editDuringSave, lastDone, afterFailure, lastOp, editsLeft,
                   url1, url2, titledScreen, lastTitleEdit, webhookSubscription,
                   activeWebhook, banner, localStorage, now, webApp, provider,
                   cacheRow, preview, download>>

UrlSpec == UrlInit /\ [][CallUrlsMatch]_vars

FairSaveSpec ==
    /\ SaveSpec
    /\ WF_vars(Mount)
    /\ WF_vars(TimerFire)
    /\ WF_vars(ParentRaisesIsSaving)
    /\ WF_vars(SaveCompletes)

\* The parent re-renders the editor with other props.currentSpec /
\* props.flowJsonFromDb at any moment (a refetch of the flow record); the render
\* recomputes initialSpec and its fingerprint.
PropsChange ==
    /\ mounted
    /\ editsLeft > 0
    /\ editsLeft' = editsLeft - 1
    /\ lastOp' = [name |-> "propsChange", prev |-> spec, prevActive |-> activeScreenId]
    /\ \E in \in EditorInputs :
       \E nextInitial \in {initialSpecOf(in.currentSpec, in.flowJsonFromDb)} :
          /\ <<in.currentSpec, in.flowJsonFromDb>> # <<currentSpec, flowJsonFromDb>>
          /\ Commit(Render([Cur EXCEPT
                               !.currentSpec = in.currentSpec,
                               !.flowJsonFromDb = in.flowJsonFromDb,
                               !.hasCanonical = IsObject(in.currentSpec.dynamicFlow),
                               !.initialSpec = nextInitial],
                            nextInitial # initialSpec))
    /\ UNCHANGED mounted

\* Edits, saves and prop updates interleaved.
ResyncNext ==
    \/ SaveNext
    \/ PropsChange

ResyncSpec == SaveInit /\ [][ResyncNext]_vars

----------------------------------------------------------------------------
(* Properties *)

RouteTargets(s) == UNION {SeqToSet(s.routingModel[k]) : k \in DOMAIN s.routingModel}

DefaultTargets(s) == {s.defaultNextByScreen[k] : k \in DOMAIN s.defaultNextByScreen}

BranchTargets(s) ==
    UNION {{s.branchesByScreen[k][i].next : i \in 1..Len(s.branchesByScreen[k])} :
              k \in DOMAIN s.branchesByScreen}

\* No routing entry, default-next value or branch rule `next` of s is x.
NoReferenceTo(s, x) ==
    x \notin RouteTargets(s) \cup DefaultTargets(s) \cup BranchTargets(s)

RouteOfIn(s, id) == Get(s.routingModel, id, <<>>)

\* C1: removing the active screen X from a spec with two or more screens gives
\* a spec without X in which no routing entry, default-next value or branch
\* rule `next` is X; this holds of the draft handleRemoveScreen returns and of
\* the spec the editor stores for it.
C1_RemoveScreenCascades ==
    /\ Len(spec.screens) >= 2 =>
          LET draft == handleRemoveScreen(spec, activeScreenId)
          IN /\ activeScreenId \notin ScreenIds(draft)
             /\ NoReferenceTo(draft, activeScreenId)
    /\ lastOp.name = "removeScreen" =>
          /\ lastOp.prevActive \notin ScreenIds(spec)
          /\ NoReferenceTo(spec, lastOp.prevActive)

\* A removal has acted on a screen that a route, a default and a branch rule
\* of another screen named.
C1_Witness ==
    /\ lastOp.name = "removeScreen"
    /\ Len(lastOp.prev.screens) >= 2
    /\ lastOp.prevActive \in RouteTargets(lastOp.prev)
    /\ lastOp.prevActive \in DefaultTargets(lastOp.prev)
    /\ lastOp.prevActive \in BranchTargets(lastOp.prev)

\* C2: in every state reachable by editor mutations, a screen with
\* terminal = true has action type `complete` and an empty routing entry.
C2_TerminalIsComplete ==
    \A i \in 1..Len(spec.screens) :
        spec.screens[i].terminal =>
            /\ spec.screens[i].action.type = "complete"
            /\ spec.screens[i].id \in DOMAIN spec.routingModel
            /\ spec.routingModel[spec.screens[i].id] = <<>>

\* A default route was chosen on a terminal screen, which stayed terminal.
C2_Witness ==
    /\ lastOp.name = "setDefaultNext"
    /\ ScreenById(lastOp.prev.screens, lastOp.prevActive).terminal
    /\ Truthy(spec.defaultNextByScreen[lastOp.prevActive])
    /\ ScreenById(spec.screens, lastOp.prevActive).terminal

HadNextConfigured(s, id) ==
    \/ Len(RouteOfIn(s, id)) > 0
    \/ Truthy(Get(s.defaultNextByScreen, id, Null))

\* C3: switching "Tela final" on for a screen that has a next screen
\* configured leaves that screen terminal, with action type `complete` and an
\* empty routing entry.
C3_SwitchOnMakesTerminal ==
    (/\ lastOp.name = "switchTerminal"
     /\ ~ScreenById(lastOp.prev.screens, lastOp.prevActive).terminal
     /\ HadNextConfigured(lastOp.prev, lastOp.prevActive))
    => LET s == ScreenById(spec.screens, lastOp.prevActive)
       IN /\ s.terminal
          /\ s.action.type = "complete"
          /\ spec.routingModel[s.id] = <<>>

C3_Witness ==
    /\ lastOp.name = "switchTerminal"
    /\ ~ScreenById(lastOp.prev.screens, lastOp.prevActive).terminal
    /\ Len(RouteOfIn(lastOp.prev, lastOp.prevActive)) > 0
    /\ Truthy(lastOp.prev.defaultNextByScreen[lastOp.prevActive])
    /\ ScreenById(spec.screens, lastOp.prevActive).terminal

\* C4: handleAddScreen appends a screen that is terminal, `complete` and has an
\* empty route, and turns the previously last screen into a non-terminal
\* `navigate` screen whose action.screen, route and default are the new id.
C4_AddScreenRelinksLast ==
    lastOp.name = "addScreen" =>
        LET n == Len(lastOp.prev.screens)
            old == spec.screens[n]
            new == spec.screens[n + 1]
        IN /\ Len(spec.screens) = n + 1
           /\ \A i \in 1..n : spec.screens[i].id = lastOp.prev.screens[i].id
           /\ new.id \notin ScreenIds(lastOp.prev)
           /\ new.terminal
           /\ new.action.type = "complete"
           /\ spec.routingModel[new.id] = <<>>
           /\ ~old.terminal
           /\ old.action.type = "navigate"
           /\ old.action.screen = new.id
           /\ spec.routingModel[old.id] = <<new.id>>
           /\ spec.defaultNextByScreen[old.id] = new.id

\* A screen was added to a spec whose only screen was terminal.
C4_Witness ==
    /\ lastOp.name = "addScreen"
    /\ Len(lastOp.prev.screens) = 1
    /\ lastOp.prev.screens[1].terminal
    /\ Len(spec.screens) = 2

\* C5: in every state reachable by editor mutations, every id in a routing
\* entry, every default-next value and every branch rule `next` names a screen
\* of spec.screens, or is null.
C5_NoDanglingReference ==
    /\ RouteTargets(spec) \subseteq ScreenIds(spec)
    /\ DefaultTargets(spec) \subseteq ScreenIds(spec) \cup {Null}
    /\ BranchTargets(spec) \subseteq ScreenIds(spec) \cup {Null}

\* As C1_Witness: the references to the removed screen had to go.
C5_Witness ==
    /\ lastOp.name = "removeScreen"
    /\ lastOp.prevActive \in RouteTargets(lastOp.prev) \cap BranchTargets(lastOp.prev)
    /\ Len(spec.screens) >= 1
    /\ lastOp.prevActive \notin ScreenIds(spec)

UsedUpper(s) == {toUpperCase(x) : x \in ScreenIds(s)}

IndexToLettersFacts ==
    /\ indexToLetters(0) = "A"
    /\ indexToLetters(25) = "Z"
    /\ indexToLetters(26) = "AA"
    /\ \A i, j \in 0..MaxIndex : i # j => indexToLetters(i) # indexToLetters(j)

C8_Counterexample ==
    lastCall.kind # "none" => ~lastCall.hadIssues

\* C9: there are never two saves in flight at once.
C9_Counterexample ==
    Len(inFlight) <= 1

\* C10: an edit made while a save was in flight, leaving a spec without issues,
\* leads to an onSave call with the spec that holds the edit (unless a later
\* edit leaves issues).
C10_LateEditIsSaved ==
    (editDuringSave /\ issues(spec) = {}) ~> (~editDuringSave \/ issues(spec) # {})

\* The save that was in flight at the edit has completed, and the timer has
\* called onSave with the spec that holds the edit.
C10_Witness ==
    /\ lastCall.carriedLateEdit
    /\ lastCall.kind = "timer"
    /\ ~lastCall.hadIssues
    /\ inFlight = <<spec>>

\* C11: when a save fails, the spec in memory is the spec that was handed to
\* onSave plus any later edits; no step has replaced it with an older spec.
C11_Counterexample ==
    lastDone.outcome = "failed" => lastDone.retained

\* C12: after a failed save the editor makes no onSave call and holds no timer
\* until an edit occurs; an edit that leaves no issues while no save is
\* reported arms the timer with the current spec.
C12_NoRetryWithoutEdit ==
    /\ lastCall.afterFailure # "failed"
    /\ lastCall.afterFailure = "edited" => lastCall.kind = "timer" \/ lastCall.kind = "explicit"
    /\ afterFailure = "failed" => timer = <<>>
    /\ (afterFailure = "edited" /\ mounted /\ dirty /\ issues(spec) = {} /\ ~isSaving)
          => timer = <<spec>>

\* A save failed, an edit followed, and the timer called onSave with the
\* current spec while no other save was in flight.
C12_Witness ==
    /\ lastDone.outcome = "failed"
    /\ lastCall.afterFailure = "edited"
    /\ lastCall.kind = "timer"
    /\ inFlight = <<spec>>
    /\ lastOp.name # "none"

Drafts ==
    {handleAddScreen(spec), handleRemoveScreen(spec, activeScreenId)}
    \cup {setDefaultNextForActive(spec, activeScreenId, next) : next \in ScreenIds(spec)}
    \cup {setBranchesForActive(spec, activeScreenId, rules) : rules \in BranchEdits}
    \cup {patchActiveTerminal(spec, activeScreenId, checked) : checked \in BOOLEAN}

C15_PatchCarriesSpecAndItsJson ==
    lastCall.kind # "none" =>
        /\ lastCall.specIsCurrent
        /\ lastCall.jsonIsCompiled
        /\ lastCall.keysKept

\* The timer has saved an edited spec of a record that carries a form spec
\* beside its canonical spec.
C15_Witness ==
    /\ lastCall.kind = "timer"
    /\ IsObject(currentSpec.form)
    /\ lastOp.name # "none"
    /\ inFlight # <<>>
    /\ inFlight[Len(inFlight)] = spec
    /\ spec # initialSpec

\* C16: the spec always has at least one screen, and handleRemoveScreen on a
\* spec of one screen leaves screens, routingModel, defaultNextByScreen and
\* branchesByScreen as they are, in the draft and in what updateSpec stores.
C16_LastScreenStays ==
    /\ Len(spec.screens) >= 1
    /\ Len(spec.screens) = 1 =>
          LET draft == handleRemoveScreen(spec, activeScreenId)
              stored == removeActiveScreen(spec, activeScreenId)
          IN /\ draft.screens = spec.screens /\ stored.screens = spec.screens
             /\ draft.routingModel = spec.routingModel
             /\ stored.routingModel = spec.routingModel
             /\ draft.defaultNextByScreen = spec.defaultNextByScreen
             /\ stored.defaultNextByScreen = spec.defaultNextByScreen
             /\ draft.branchesByScreen = spec.branchesByScreen
             /\ stored.branchesByScreen = spec.branchesByScreen

\* Screens were removed until one was left, and that one is the active screen
\* and is not the screen the normalizer would put in an empty list.
C16_Witness ==
    /\ lastOp.name = "removeScreen"
    /\ Len(spec.screens) = 1
    /\ activeScreenId = spec.screens[1].id
    /\ spec.screens[1] # DefaultScreen

\* C17: the initial spec comes from the first input present, in the order
\* currentSpec.dynamicFlow.flowJson, currentSpec.dynamicFlow,
\* currentSpec.booking, currentSpec.form, flowJsonFromDb, the default spec; an
\* input is present when it is an object.  The flow JSON of the record is read
\* as vendor JSON exactly when it has a truthy routing_model or a string
\* data_api_version, and through the form shape otherwise.
C17_InitialSpecPrecedence ==
    LET hasInnerJson == IsObject(currentSpec.dynamicFlow)
                        /\ IsObject(currentSpec.dynamicFlow.flowJson)
        hasDynamicFlow == IsObject(currentSpec.dynamicFlow)
        hasBooking == IsObject(currentSpec.booking)
        hasForm == IsObject(currentSpec.form)
        hasFlowJson == IsObject(flowJsonFromDb)
        isVendorJson == \/ flowJsonFromDb.routing_model # JsUndefined
                        \/ flowJsonFromDb.data_api_version = JsString
    IN /\ hasInnerJson =>
             initialSpec = normalizeDynamicFlowSpec(
                               dynamicFlowSpecFromJson(currentSpec.dynamicFlow.flowJson))
       /\ (hasDynamicFlow /\ ~hasInnerJson) =>
             initialSpec = normalizeDynamicFlowSpec(currentSpec.dynamicFlow.raw)
       /\ (hasBooking /\ ~hasDynamicFlow) =>
             initialSpec = bookingConfigToDynamicSpec(currentSpec.booking)
       /\ (hasForm /\ ~hasBooking /\ ~hasDynamicFlow) =>
             initialSpec = formSpecToDynamicSpec(currentSpec.form)
       /\ (hasFlowJson /\ isVendorJson /\ ~hasForm /\ ~hasBooking /\ ~hasDynamicFlow) =>
             initialSpec = normalizeDynamicFlowSpec(dynamicFlowSpecFromJson(flowJsonFromDb))
       /\ (hasFlowJson /\ ~isVendorJson /\ ~hasForm /\ ~hasBooking /\ ~hasDynamicFlow) =>
             initialSpec = formSpecToDynamicSpec(flowJsonToFormSpec(flowJsonFromDb))
       /\ (~hasFlowJson /\ ~hasForm /\ ~hasBooking /\ ~hasDynamicFlow) =>
             initialSpec = normalizeDynamicFlowSpec(RawEmpty)

\* All five inputs are present, each would yield a different spec, and the
\* editor was mounted on the one the flow JSON inside dynamicFlow yields.
C17_Witness ==
    /\ mounted
    /\ IsObject(currentSpec.dynamicFlow) /\ IsObject(currentSpec.dynamicFlow.flowJson)
    /\ IsObject(currentSpec.booking) /\ IsObject(currentSpec.form)
    /\ IsObject(flowJsonFromDb)
    /\ Cardinality({normalizeDynamicFlowSpec(
                        dynamicFlowSpecFromJson(currentSpec.dynamicFlow.flowJson)),
                    normalizeDynamicFlowSpec(currentSpec.dynamicFlow.raw),
                    bookingConfigToDynamicSpec(currentSpec.booking),
                    formSpecToDynamicSpec(currentSpec.form),
                    normalizeDynamicFlowSpec(dynamicFlowSpecFromJson(flowJsonFromDb)),
                    formSpecToDynamicSpec(flowJsonToFormSpec(flowJsonFromDb)),
                    normalizeDynamicFlowSpec(RawEmpty)}) = 7
    /\ spec = normalizeDynamicFlowSpec(
                  dynamicFlowSpecFromJson(currentSpec.dynamicFlow.flowJson))

\* Two arguments that are URLs of the same host, whatever the case of its
\* letters, the protocol and the trailing slash
SameUrlButForSlashCaseProtocol(a, b) ==
    \E p1, p2 \in Protocols, s1, s2 \in Slashes, h1, h2 \in Hosts :
        /\ a = Chars(UrlText(p1, h1, s1))
        /\ b = Chars(UrlText(p2, h2, s2))
        /\ normalize(h1) = normalize(h2)

\* C18: urlsMatch(a, b) is true for two URLs that differ only by a trailing
\* slash, by letter case or by the protocol http versus https; it is
\* symmetric; it is false when either argument is null, undefined or empty.
C18_Counterexample ==
    matched # "none" =>
        /\ SameUrlButForSlashCaseProtocol(url1, url2) => matched = "true"
        /\ (matched = "true") = urlsMatch(url2, url1)
        /\ ({url1, url2} \cap {JsNull, JsUndefined, Chars(<<>>)} # {}) => matched = "false"

\* The spec held, as a normalizer that keeps a configured route would hand it
\* to the UX rule: screen i terminal, with `next` as its routing entry
Conflicted(i, next) ==
    [spec EXCEPT !.screens[i].terminal = TRUE,
                 !.routingModel[spec.screens[i].id] = <<next>>]

TimerPendingFor(s, d, saving, pending) ==
    /\ pending = <<s>>
    /\ d /\ issues(s) = {} /\ ~saving

\* C20: the debounced auto-save calls onSave only from a timer that was set
\* for the spec now held, with the editor dirty, without issues and not
\* saving, all of which have held since the timer was set; a step that
\* changes the spec, the issues, dirty or isSaving leaves no timer of the
\* state before it; at most one timer is pending; and a timer's save is of
\* the spec held and leaves no timer behind, so that the edits of a burst are
\* saved once, as the final spec.
C20_DebounceSavesFinalSpec ==
    /\ [](/\ Len(timer) <= 1
          /\ timer # <<>> => mounted /\ TimerPendingFor(spec, dirty, isSaving, timer)
          /\ lastCall.kind = "timer" => ~lastCall.hadIssues /\ lastCall.specIsCurrent)
    /\ [][/\ (spec' # spec \/ dirty' # dirty \/ isSaving' # isSaving) =>
                \/ timer' = <<>>
                \/ TimerPendingFor(spec', dirty', isSaving', timer')
          /\ (Len(inFlight') > Len(inFlight) /\ lastCall'.kind = "timer") =>
                /\ TimerPendingFor(spec, dirty, isSaving, timer)
                /\ inFlight' = Append(inFlight, spec)
                /\ spec' = spec
                /\ ~dirty' /\ timer' = <<>>]_vars

\* Every edit of the run was made before the first save, and the timer has
\* made that one save, of the spec the last edit left.
C20_Witness ==
    /\ lastCall.kind = "timer"
    /\ editsLeft = 0
    /\ hasCanonical
    /\ lastDone.outcome = "none"
    /\ inFlight = <<spec>>
    /\ spec # initialSpec
    /\ ~dirty
    /\ timer = <<>>

\* C25: the silent migration calls onSave at most once per mount: a step
\* issues at most one migration call, only with migratedRef unset before and
\* set after, only while props.currentSpec has no dynamicFlow object and the
\* editor is not dirty, and leaves it not dirty; migratedRef is never reset.
C25_MigratesOnce ==
    /\ [](lastCall.kind = "migration" => migratedRef)
    /\ [][/\ migratedRef => migratedRef'
          /\ (Len(inFlight') > Len(inFlight) /\ lastCall'.kind = "migration") =>
                /\ ~migratedRef /\ migratedRef'
                /\ ~IsObject(currentSpec'.dynamicFlow)
                /\ ~dirty /\ ~dirty'
                /\ inFlight' = Append(inFlight, spec')]_vars

\* The migration's save failed: the record still has no dynamicFlow and the
\* editor is not dirty, and renders have followed without a second call.
C25_Witness ==
    /\ lastCall.kind = "migration"
    /\ lastDone.outcome = "failed"
    /\ ~IsObject(currentSpec.dynamicFlow)
    /\ mounted /\ ~dirty /\ migratedRef
    /\ inFlight = <<>>

\* C29: routingModel and defaultNextByScreen agree after every editor
\* operation: for every screen s, routingModel[s] is <<defaultNextByScreen[s]>>
\* when defaultNextByScreen[s] is a screen id and is empty when it is null.
C29_Counterexample ==
    (mounted /\ lastOp.name # "none") =>
        \A id \in ScreenIds(spec) :
            LET d == Get(spec.defaultNextByScreen, id, Null)
            IN RouteOfIn(spec, id) = (IF d \in ScreenIds(spec) THEN <<d>> ELSE <<>>)

\* C22: after any sequence of CTA-changing operations (setCta,
\* updateCtaForScreen, handleAddScreen, the terminal switch) each screen's
\* action matches its type: navigate carries a target screen id and no payload,
\* data_exchange carries the payload of the screen's field names and no screen,
\* complete carries neither screen nor payload.
C22_Counterexample ==
    (mounted /\ lastOp.name \in {"switchTerminal", "setCtaLabel", "setCtaNext",
                                 "updateCta", "addScreen"}) =>
        \A i \in 1..Len(spec.screens) :
            LET s == spec.screens[i]
                a == s.action
            IN /\ a.type = "navigate" =>
                    a.screen \in ScreenIds(spec) /\ a.payload = NoPayload
               /\ a.type = "data_exchange" =>
                    a.screen = Undef /\ a.payload = SeqToSet(FieldNamesOf(s))
               /\ a.type = "complete" =>
                    a.screen = Undef /\ a.payload = NoPayload

\* C30: a change of the externally supplied spec replaces the in-memory spec
\* only when the editor is not dirty: while dirty is true no prop change
\* overwrites the in-memory spec, under any interleaving of edits, saves and
\* prop updates; when the editor is clean the changed initialSpec replaces it,
\* and after the replacement activeScreenId names a screen of the new spec.
C30_PropsReplaceOnlyWhenClean ==
    [][(currentSpec' # currentSpec \/ flowJsonFromDb' # flowJsonFromDb) =>
          /\ dirty => (spec' = spec /\ activeScreenId' = activeScreenId /\ dirty')
          /\ spec' # spec => (~dirty /\ spec' = initialSpec')
          /\ (~dirty /\ initialSpec' # initialSpec) =>
                /\ spec' = initialSpec'
                /\ activeScreenId' \in ScreenIds(spec')
                /\ activeScreenId \in ScreenIds(spec') => activeScreenId' = activeScreenId]_vars

C30_Witness ==
    /\ lastOp.name = "propsChange"
    /\ dirty
    /\ spec = lastOp.prev
    /\ spec # initialSpec
    /\ ScreenIds(initialSpec) # ScreenIds(spec)
    /\ Len(inFlight) > 0

----------------------------------------------------------------------------
(* Editing a screen's title: patchScreenById (from the preview) and the
   'Título da tela' input (patchActiveScreen).  A screen is held here as its
   title and its data object; a string is the sequence of its characters and
   an object is the function `fields` from the keys present. *)

\* current.title.match(/^\$\{data\.([a-zA-Z0-9_]+)\}$/)?.[1], <<>> for no match
titleKey(title) ==
    LET n == Len(title)
        key == SubSeq(title, 8, n - 1)
    IN IF /\ n >= 9
          /\ SubSeq(title, 1, 7) = <<"$", "{", "d", "a", "t", "a", ".">>
          /\ title[n] = "}"
          /\ \A i \in 1..Len(key) :
                key[i] \in SeqToSet(Letters) \cup SeqToSet(LowerLetters)
                           \cup {"0", "1", "2", "3", "4", "5", "6", "7", "8", "9", "_"}
       THEN key
       ELSE <<>>

\* key && current.data && typeof current.data === 'object' && current.data[key]
\* && typeof current.data[key] === 'object', for a title that is a string
IsBoundTitle(current) ==
    /\ current.title.type = "string"
    /\ titleKey(current.title.chars) # <<>>
    /\ current.data.type = "object"
    /\ titleKey(current.title.chars) \in DOMAIN current.data.fields
    /\ current.data.fields[titleKey(current.title.chars)].type = "object"

\* The screen patchActiveScreen({ title }) stores: { ...screens[idx], ...patch }
patchActiveScreen(current, title) == [current EXCEPT !.title = Chars(title)]

\* The screen patchScreenById(screenId, { title }) stores
patchScreenById(current, title) ==
    IF IsBoundTitle(current)
    THEN LET key == titleKey(current.title.chars)
             nextField == [current.data.fields[key] EXCEPT
                              !.fields = Put(@, "__example__", Chars(title))]
         IN [current EXCEPT !.data.fields = Put(@, key, nextField)]
    ELSE [current EXCEPT !.title = Chars(title)]

TitleInit ==
    LET binding == <<"$", "{", "d", "a", "t", "a", ".", "t", "}">>
        titles == {<<"H", "i">>, binding,
                   <<"$", "{", "d", "a", "t", "a", ".", "}">>,
                   binding \o <<"!">>,
                   <<"$", "{", "d", "a", "t", "a", ".", "t", "-", "}">>,
                   <<"$", "{", "f", "o", "r", "m", ".", "t", "}">>}
        object(fields) == [type |-> "object", fields |-> fields]
        example == Put(EmptyObj, "__example__", Chars(<<"O", "l", "d">>))
    IN /\ EditorIdle
       /\ Idle({"title"})
       /\ titledScreen \in
             [title : {Chars(t) : t \in titles} \cup {JsUndefined},
              data : {JsUndefined, object(EmptyObj),
                      object(Put(EmptyObj, <<"t">>, Chars(<<"x">>))),
                      object(Put(EmptyObj, <<"t">>, object(EmptyObj))),
                      object(Put(EmptyObj, <<"t">>, object(example)))}]
       /\ lastTitleEdit = [name |-> "none", prev |-> titledScreen, text |-> <<>>]

\* onUpdateScreenTitle of the preview
EditTitleInPreview ==
    \E text \in {<<"N">>, <<"O", "k">>, <<>>} :
        /\ lastTitleEdit' = [name |-> "patchScreenById", prev |-> titledScreen, text |-> text]
        /\ titledScreen' = patchScreenById(titledScreen, text)
        /\ UNCHANGED <<editorVars, webhookSubscription, activeWebhook, banner,
                       localStorage, now, webApp, provider, cacheRow, preview, download>>

\* onChange of the 'Título da tela' input
EditTitleInput ==
    \E text \in {<<"N">>, <<"O", "k">>, <<>>} :
        /\ lastTitleEdit' = [name |-> "patchActiveScreen", prev |-> titledScreen, text |-> text]
        /\ titledScreen' = patchActiveScreen(titledScreen, text)
        /\ UNCHANGED <<editorVars, webhookSubscription, activeWebhook, banner,
                       localStorage, now, webApp, provider, cacheRow, preview, download>>

TitleSpec == TitleInit /\ [][EditTitleInPreview \/ EditTitleInput]_vars

\* C21: when the screen's title is the binding ${data.<key>} and
\* screen.data[<key>] is an object, every title edit (patchScreenById from the
\* preview, the 'Título da tela' input through patchActiveScreen) stores the
\* new text in data[<key>].__example__ and leaves the title binding unchanged.
C21_Counterexample ==
    (lastTitleEdit.name # "none" /\ IsBoundTitle(lastTitleEdit.prev)) =>
        /\ titledScreen.title = lastTitleEdit.prev.title
        /\ IsBoundTitle(titledScreen)
        /\ LET field == titledScreen.data.fields[titleKey(titledScreen.title.chars)]
           IN /\ "__example__" \in DOMAIN field.fields
              /\ field.fields["__example__"] = Chars(lastTitleEdit.text)

----------------------------------------------------------------------------
(* WebhookStatusIndicator and WebhookAlertBanner: the active webhook of the
   hierarchy phone (#1) > WABA (#2) > app (#3), and the banner dismissed for 24
   hours through localStorage.  Both components read the same query data;
   Date.now() is in milliseconds. *)

\* 24 * 60 * 60 * 1000
DISMISS_DURATION == 86400000

findActiveLevel(hierarchy, expectedUrl) ==
    LET truthy(u) == u.type = "string" /\ u.chars # <<>>
        found(level, u) ==
            [level |-> level, url |-> u, isSmartZap |-> urlsMatch(u, expectedUrl)]
    IN IF hierarchy.type # "object"
       THEN [level |-> "null", url |-> JsNull, isSmartZap |-> FALSE]
       ELSE IF truthy(hierarchy.phoneNumberOverride)
       THEN found("#1 Número", hierarchy.phoneNumberOverride)
       ELSE IF truthy(hierarchy.wabaOverride)
       THEN found("#2 WABA", hierarchy.wabaOverride)
       ELSE IF truthy(hierarchy.appWebhook)
       THEN found("#3 APP", hierarchy.appWebhook)
       ELSE [level |-> "null", url |-> JsNull, isSmartZap |-> FALSE]

findActiveUrl(hierarchy, expectedUrl) ==
    LET truthy(u) == u.type = "string" /\ u.chars # <<>>
        or(a, b) == IF truthy(a) THEN a ELSE b
    IN IF hierarchy.type # "object"
       THEN [url |-> JsNull, isSmartZap |-> FALSE]
       ELSE LET activeUrl == or(or(hierarchy.phoneNumberOverride, hierarchy.wabaOverride),
                                hierarchy.appWebhook)
            IN [url |-> activeUrl, isSmartZap |-> urlsMatch(activeUrl, expectedUrl)]

\* String(n) of a non-negative integer: its decimal digits
RECURSIVE DigitsOf(_)
DigitsOf(n) ==
    LET digit == <<"0", "1", "2", "3", "4", "5", "6", "7", "8", "9">>[(n % 10) + 1]
    IN IF n < 10 THEN <<digit>> ELSE Append(DigitsOf(n \div 10), digit)

\* parseInt(s, 10) of a string of decimal digits
RECURSIVE parseInt(_)
parseInt(s) ==
    IF Len(s) = 0 THEN 0
    ELSE LET value == CHOOSE d \in 0..9 : DigitsOf(d) = <<s[Len(s)]>>
         IN parseInt(SubSeq(s, 1, Len(s) - 1)) * 10 + value

\* The banner returns its markup: not loading, a diagnosis, not dismissed
BannerShown ==
    /\ banner.mounted
    /\ ~banner.isLoading
    /\ webhookSubscription.type = "object"
    /\ webhookSubscription.ok
    /\ ~findActiveUrl(webhookSubscription.hierarchy,
                      webhookSubscription.smartzapWebhookUrl).isSmartZap
    /\ ~banner.isDismissed

WebhookInit ==
    /\ EditorIdle
    /\ Idle({"webhook"})
    /\ webhookSubscription = JsUndefined
    /\ activeWebhook = JsUndefined
    /\ banner = [mounted |-> FALSE, checked |-> FALSE, isDismissed |-> TRUE,
                 isLoading |-> TRUE]
    /\ localStorage = JsNull
    /\ now = 0

\* The query settles: the route's JSON, { ok: false } for a non-ok response,
\* no data when fetch rejects.  Both components render the data.
QueryResolves ==
    /\ banner.isLoading
    /\ \E data \in
          {JsUndefined}
          \cup
          [type : {"object"}, ok : BOOLEAN,
           hierarchy :
               {JsNull, JsUndefined}
               \cup [type : {"object"},
                     phoneNumberOverride : {JsNull, Chars(UrlText(<<"h">>, <<"Z">>, <<>>))},
                     wabaOverride : {JsNull, Chars(<<>>), Chars(UrlText(<<"h">>, <<"b">>, <<>>))},
                     appWebhook : {JsNull, Chars(<<>>), Chars(UrlText(<<"h">>, <<"z">>, <<"/">>)),
                                   Chars(UrlText(<<"h">>, <<"b">>, <<>>))}],
           smartzapWebhookUrl : {JsUndefined, Chars(UrlText(<<"h">>, <<"z">>, <<>>))}] :
          /\ webhookSubscription' = data
          /\ activeWebhook' =
                IF data.type = "object"
                THEN [type |-> "object",
                      level |-> findActiveLevel(data.hierarchy, data.smartzapWebhookUrl),
                      url |-> findActiveUrl(data.hierarchy, data.smartzapWebhookUrl)]
                ELSE JsUndefined
    /\ banner' = [banner EXCEPT !.isLoading = FALSE]
    /\ UNCHANGED <<editorVars, localStorage, now, titledScreen, lastTitleEdit, webApp,
                   provider, cacheRow, preview, download>>

\* The first render: useState(true)
BannerMount ==
    /\ ~banner.mounted
    /\ banner' = [banner EXCEPT !.mounted = TRUE, !.checked = FALSE, !.isDismissed = TRUE]
    /\ UNCHANGED <<editorVars, webhookSubscription, activeWebhook, localStorage, now,
                   titledScreen, lastTitleEdit, webApp, provider, cacheRow, preview,
                   download>>

\* The mount effect whose comparison is <= DISMISS_DURATION
BannerCheckInclusive ==
    /\ banner.mounted /\ ~banner.checked
    /\ banner' = [banner EXCEPT
          !.checked = TRUE,
          !.isDismissed =
              /\ localStorage.type = "string" /\ localStorage.chars # <<>>
              /\ now - parseInt(localStorage.chars) <= DISMISS_DURATION]
    /\ UNCHANGED <<editorVars, webhookSubscription, activeWebhook, localStorage, now,
                   titledScreen, lastTitleEdit, webApp, provider, cacheRow, preview,
                   download>>

\* The mount effect: reads localStorage
BannerCheck ==
    /\ banner.mounted /\ ~banner.checked
    /\ banner' = [banner EXCEPT
          !.checked = TRUE,
          !.isDismissed =
              /\ localStorage.type = "string" /\ localStorage.chars # <<>>
              /\ now - parseInt(localStorage.chars) < DISMISS_DURATION]
    /\ UNCHANGED <<editorVars, webhookSubscription, activeWebhook, localStorage, now,
                   titledScreen, lastTitleEdit, webApp, provider, cacheRow, preview,
                   download>>

\* The close button, which exists only while the banner is shown
handleDismiss ==
    /\ BannerShown
    /\ localStorage' = Chars(DigitsOf(now))
    /\ banner' = [banner EXCEPT !.isDismissed = TRUE]
    /\ UNCHANGED <<editorVars, webhookSubscription, activeWebhook, now, titledScreen,
                   lastTitleEdit, webApp, provider, cacheRow, preview, download>>

\* Navigation away: the next mount starts from useState(true); the query cache
\* keeps its data
BannerUnmount ==
    /\ banner.mounted
    /\ banner' = [banner EXCEPT !.mounted = FALSE, !.checked = FALSE, !.isDismissed = TRUE]
    /\ UNCHANGED <<editorVars, webhookSubscription, activeWebhook, localStorage, now,
                   titledScreen, lastTitleEdit, webApp, provider, cacheRow, preview,
                   download>>

\* Time passes, to one of the instants around the 24 hours after a dismissal
AdvanceClock ==
    /\ \E t \in {1, DISMISS_DURATION - 1, DISMISS_DURATION, DISMISS_DURATION + 1,
                 2 * DISMISS_DURATION} :
          t > now /\ now' = t
    /\ UNCHANGED <<editorVars, webhookSubscription, activeWebhook, banner, localStorage,
                   titledScreen, lastTitleEdit, webApp, provider, cacheRow, preview,
                   download>>

WebhookSpec ==
    WebhookInit /\ [][\/ QueryResolves
                      \/ BannerMount
                      \/ BannerCheck
                      \/ handleDismiss
                      \/ BannerUnmount
                      \/ AdvanceClock]_vars

\* C23: the active webhook is the highest-priority configured level, phone
\* (#1) > WABA (#2) > app (#3), and isSmartZap is decided on that level's URL
\* only; findActiveLevel and findActiveUrl return the same url and the same
\* isSmartZap for every hierarchy and expected URL, and both return url null
\* and isSmartZap false when no level is configured.
C23_Counterexample ==
    activeWebhook.type # "undefined" =>
        LET h == webhookSubscription.hierarchy
            configured(u) == u.type = "string" /\ u.chars # <<>>
            levels == IF h.type = "object"
                      THEN <<h.phoneNumberOverride, h.wabaOverride, h.appWebhook>>
                      ELSE <<>>
            set == {i \in 1..Len(levels) : configured(levels[i])}
        IN /\ activeWebhook.level.url = activeWebhook.url.url
           /\ activeWebhook.level.isSmartZap = activeWebhook.url.isSmartZap
           /\ set = {} =>
                 /\ activeWebhook.level.url = JsNull /\ ~activeWebhook.level.isSmartZap
                 /\ activeWebhook.url.url = JsNull /\ ~activeWebhook.url.isSmartZap
           /\ set # {} =>
                 LET top == levels[CHOOSE i \in set : \A j \in set : i <= j]
                 IN /\ activeWebhook.level.url = top
                    /\ activeWebhook.level.isSmartZap =
                          urlsMatch(top, webhookSubscription.smartzapWebhookUrl)

\* C24: the banner is rendered only when the query has finished loading, the
\* subscription is ok, the active URL is not the SmartZap URL and the banner
\* was not dismissed within the last 24 hours; it starts hidden before the
\* localStorage check and an API error never shows it.  After handleDismiss at
\* time t every mount checked before t + 24 h stays hidden, and a mount checked
\* at or after t + 24 h is no longer held back by the dismissal.
C24_BannerDismissedFor24h ==
    /\ [](BannerShown =>
             /\ banner.checked
             /\ ~banner.isLoading
             /\ webhookSubscription.type = "object" /\ webhookSubscription.ok
             /\ activeWebhook.type = "object" /\ ~activeWebhook.url.isSmartZap
             /\ localStorage.type = "string" =>
                   now - parseInt(localStorage.chars) >= DISMISS_DURATION)
    /\ []((banner.mounted /\ banner.checked /\ localStorage.type = "string"
           /\ now - parseInt(localStorage.chars) < DISMISS_DURATION)
          => banner.isDismissed)
    /\ [][(banner.mounted /\ ~banner.checked /\ banner'.checked) =>
             banner'.isDismissed =
                 (/\ localStorage.type = "string"
                  /\ now < parseInt(localStorage.chars) + DISMISS_DURATION)]_vars
    /\ [][(localStorage' # localStorage) =>
             /\ BannerShown /\ ~BannerShown'
             /\ localStorage' = Chars(DigitsOf(now))
             /\ parseInt(localStorage'.chars) = now]_vars

C24_Witness ==
    /\ BannerShown
    /\ localStorage.type = "string"
    /\ now = parseInt(localStorage.chars) + DISMISS_DURATION
    /\ parseInt(localStorage.chars) > 0

----------------------------------------------------------------------------
(* TelegramSDKProvider: host mode when window.Telegram.WebApp exists at the
   init effect, mock mode otherwise.  webApp.requestFullscreen tells whether
   the host's WebApp object has that method (Bot API 8.0+); the methods the
   init effect calls unguarded (ready, expand) and the older ones are there
   whenever the object is. *)

TelegramInit ==
    /\ EditorIdle
    /\ Idle({"telegram"})
    /\ webApp \in {JsUndefined} \cup [type : {"object"}, requestFullscreen : BOOLEAN]
    /\ provider = [mounted |-> TRUE, initialised |-> FALSE, isReady |-> FALSE,
                   isMock |-> TRUE, timer |-> FALSE, hostCalls |-> {},
                   lastAction |-> [name |-> "none", host |-> FALSE]]

\* The init effect
InitEffect ==
    /\ provider.mounted /\ ~provider.initialised
    /\ provider' =
          IF webApp.type = "object"
          THEN [provider EXCEPT
                   !.initialised = TRUE,
                   !.isMock = FALSE,
                   !.hostCalls = {"ready", "expand"} \cup
                       (IF webApp.requestFullscreen THEN {"requestFullscreen"} ELSE {}),
                   !.isReady = TRUE]
          ELSE [provider EXCEPT !.initialised = TRUE, !.isMock = TRUE, !.timer = TRUE]
    /\ UNCHANGED <<editorVars, webApp, titledScreen, lastTitleEdit, webhookSubscription,
                   activeWebhook, banner, localStorage, now, cacheRow, preview, download>>

\* setTimeout(() => setIsReady(true), 300)
ReadyTimer ==
    /\ provider.timer
    /\ provider' = [provider EXCEPT !.timer = FALSE, !.isReady = TRUE]
    /\ UNCHANGED <<editorVars, webApp, titledScreen, lastTitleEdit, webhookSubscription,
                   activeWebhook, banner, localStorage, now, cacheRow, preview, download>>

\* showAlert, showConfirm, hapticFeedback, close, expand, requestFullscreen:
\* each reads window.Telegram?.WebApp when called
CallAction ==
    /\ provider.mounted
    /\ \E name \in {"showAlert", "showConfirm", "hapticFeedback", "close", "expand",
                    "requestFullscreen"} :
          LET host == /\ webApp.type = "object"
                      /\ name = "requestFullscreen" => webApp.requestFullscreen
          IN provider' = [provider EXCEPT
                             !.lastAction = [name |-> name, host |-> host],
                             !.hostCalls = IF host THEN @ \cup {name} ELSE @]
    /\ UNCHANGED <<editorVars, webApp, titledScreen, lastTitleEdit, webhookSubscription,
                   activeWebhook, banner, localStorage, now, cacheRow, preview, download>>

\* The effect's cleanup: clearTimeout(timer)
ProviderUnmount ==
    /\ provider.mounted /\ provider.initialised
    /\ provider' = [provider EXCEPT !.mounted = FALSE, !.timer = FALSE]
    /\ UNCHANGED <<editorVars, webApp, titledScreen, lastTitleEdit, webhookSubscription,
                   activeWebhook, banner, localStorage, now, cacheRow, preview, download>>

TelegramSpec ==
    TelegramInit /\ [][InitEffect \/ ReadyTimer \/ CallAction \/ ProviderUnmount]_vars

\* C26: isMock is true exactly when window.Telegram.WebApp is absent at
\* initialisation; isReady becomes true after tg.ready() in host mode and after
\* the timer in mock mode, and never reverts; once ready, every action
\* (showAlert, showConfirm, hapticFeedback, close, expand, requestFullscreen)
\* calls the host SDK if and only if isMock is false.
C26_Counterexample ==
    /\ [](provider.initialised =>
             /\ provider.isMock = (webApp.type # "object")
             /\ ~provider.isMock => (provider.isReady /\ "ready" \in provider.hostCalls))
    /\ [](provider.isReady => (provider.isMock => ~provider.timer))
    /\ [][provider.isReady => provider'.isReady]_vars
    /\ []((provider.isReady /\ provider.lastAction.name # "none") =>
             provider.lastAction.host = ~provider.isMock)

----------------------------------------------------------------------------
(* GET /api/templates/[name]: ensureHeaderMediaPreviewUrl re-hosts the header
   media example of a template and caches the URL in the templates row;
   tryDownloadBinary fetches the example.  A fetch ends as "ok" (a 2xx
   response with a body of `size` bytes), "http" (a non-ok response) or
   "throw" (network error, abort on timeout).  A timestamp is held in
   milliseconds as [type |-> "date", ms |-> n]. *)

MaxPreviewCalls == 2

\* 25 * 1024 * 1024
MEDIA_REHOST_MAX_BYTES == 26214400

\* tryDownloadBinary that sends the token with its first request
tryDownloadBinaryAuthFirst(accessToken, first, second) ==
    LET caught == [ok |-> FALSE, status |-> 0, size |-> 0]
        attempt(o) == [ok |-> o.kind = "ok", status |-> o.status, size |-> o.size]
    IN [type |-> "object", token |-> accessToken, first |-> first,
        second |-> JsUndefined, requests |-> <<"Bearer">>,
        result |-> IF first.kind = "throw" THEN caught ELSE attempt(first)]

\* The requests tryDownloadBinary sends (each by its Authorization header) and
\* the value it resolves to, for the outcomes of its fetches
tryDownloadBinary(accessToken, first, second) ==
    LET caught == [ok |-> FALSE, status |-> 0, size |-> 0]
        attempt(o) == [ok |-> o.kind = "ok", status |-> o.status, size |-> o.size]
        given == accessToken.type = "string" /\ accessToken.chars # <<>>
        called(requests, result) ==
            [type |-> "object", token |-> accessToken, first |-> first,
             second |-> IF Len(requests) = 2 THEN second ELSE JsUndefined,
             requests |-> requests, result |-> result]
    IN IF first.kind = "throw" THEN called(<<"none">>, caught)
       ELSE IF first.kind = "ok" THEN called(<<"none">>, attempt(first))
       ELSE IF given
       THEN called(<<"none", "Bearer">>,
                   IF second.kind = "throw" THEN caught ELSE attempt(second))
       ELSE called(<<"none">>, attempt(first))

\* The expiry test with `<` for `<=`
isExpiredLate(cachedExpiresAt, at) ==
    cachedExpiresAt.type = "date" /\ cachedExpiresAt.ms < at

\* cachedExpiresAt ? new Date(cachedExpiresAt).getTime() <= Date.now() : false
isExpired(cachedExpiresAt, at) ==
    cachedExpiresAt.type = "date" /\ cachedExpiresAt.ms <= at

\* What one call of ensureHeaderMediaPreviewUrl returns and leaves in the
\* templates row, at Date.now() = at, for the outcomes `env` of its requests
ensureHeaderMediaPreviewUrl(row, example, accessToken, at, env) ==
    LET failed(path, downloaded) ==
            [result |-> JsNull, row |-> row, download |-> downloaded, path |-> path]
        lower == IF example.type = "string" THEN normalize(example.chars) ELSE <<>>
        isHttpUrl == \/ Len(lower) >= 7 /\ SubSeq(lower, 1, 7) = <<"h", "t", "t", "p", ":", "/", "/">>
                     \/ Len(lower) >= 8 /\ SubSeq(lower, 1, 8) = <<"h", "t", "t", "p", "s", ":", "/", "/">>
        exampleHash == Chars(<<"#">> \o example.chars)
        hit == /\ row.url.type = "string" /\ row.url.chars # <<>>
               /\ row.header_media_hash = exampleHash
               /\ ~isExpired(row.expiresAt, at)
        downloaded == tryDownloadBinary(accessToken, env.first, env.second)
        signedTtl == 24 * 60 * 60 * 1000
        final == IF ~env.publicUrl THEN JsNull
                 ELSE IF env.probeOk
                 THEN [type |-> "object", url |-> Chars(<<"p", "u", "b">>), expiresAt |-> JsNull]
                 ELSE IF env.signedUrl
                 THEN [type |-> "object", url |-> Chars(<<"s", "i", "g">>),
                       expiresAt |-> [type |-> "date", ms |-> at + signedTtl]]
                 ELSE JsNull
    IN IF example.type # "string" \/ example.chars = <<>> \/ ~isHttpUrl
       THEN failed("not-http", JsUndefined)
       ELSE IF ~env.selectFails /\ hit
       THEN [result |-> [type |-> "object", url |-> row.url, expiresAt |-> row.expiresAt],
             row |-> row, download |-> JsUndefined, path |-> "cached"]
       ELSE IF ~downloaded.result.ok THEN failed("download", downloaded)
       ELSE IF downloaded.result.size > MEDIA_REHOST_MAX_BYTES THEN failed("size", downloaded)
       ELSE IF env.uploadError THEN failed("upload", downloaded)
       ELSE IF final = JsNull THEN failed("no-url", downloaded)
       ELSE [result |-> final,
             row |-> IF env.updateFails THEN row
                     ELSE [url |-> final.url, expiresAt |-> final.expiresAt,
                           header_media_hash |-> exampleHash],
             download |-> downloaded,
             path |-> IF env.updateFails THEN "unwritten" ELSE "written"]

PreviewInit ==
    /\ EditorIdle
    /\ Idle({"preview"})
    /\ cacheRow \in
          {[url |-> JsNull, expiresAt |-> JsNull, header_media_hash |-> JsNull],
           [url |-> Chars(<<"p", "u", "b">>), expiresAt |-> JsNull,
            header_media_hash |-> Chars(<<"#">> \o UrlText(<<"h", "t", "t", "p">>, <<"a">>, <<>>))]}
    /\ preview = [calls |-> 0, at |-> 0, example |-> JsUndefined, prevRow |-> cacheRow,
                  selectFails |-> FALSE, path |-> "none", result |-> JsNull]
    /\ download = JsUndefined

\* One request to the route: the template's header example, the clock and the
\* outcome of every request the function makes (a fetch or a storage call that
\* is not reached has no outcome to choose)
CallEnsurePreview ==
    /\ preview.calls < MaxPreviewCalls
    /\ LET ok(size) == [kind |-> "ok", status |-> 200, size |-> size]
           http == [kind |-> "http", status |-> 403, size |-> 0]
           throw == [kind |-> "throw", status |-> 0, size |-> 0]
           storage(upload, public, probe, signed, update) ==
               [uploadError |-> upload, publicUrl |-> public, probeOk |-> probe,
                signedUrl |-> signed, updateFails |-> update]
       IN \E example \in {Chars(<<"f", "t", "p", ":", "/", "/", "a">>),
                          Chars(UrlText(<<"h", "t", "t", "p">>, <<"a">>, <<>>)),
                          Chars(UrlText(<<"H", "T", "T", "P", "S">>, <<"b">>, <<>>))},
             elapsed \in {0, 24 * 60 * 60 * 1000 - 1, 24 * 60 * 60 * 1000},
             selectFails \in BOOLEAN,
             fetches \in {<<ok(MEDIA_REHOST_MAX_BYTES), throw>>,
                          <<ok(MEDIA_REHOST_MAX_BYTES + 1), throw>>,
                          <<throw, throw>>, <<http, ok(1)>>, <<http, http>>, <<http, throw>>},
             s \in {storage(TRUE, FALSE, FALSE, FALSE, FALSE),
                    storage(FALSE, FALSE, FALSE, FALSE, FALSE),
                    storage(FALSE, TRUE, FALSE, FALSE, FALSE),
                    storage(FALSE, TRUE, TRUE, FALSE, FALSE),
                    storage(FALSE, TRUE, TRUE, FALSE, TRUE),
                    storage(FALSE, TRUE, FALSE, TRUE, FALSE),
                    storage(FALSE, TRUE, FALSE, TRUE, TRUE)} :
          \E out \in {ensureHeaderMediaPreviewUrl(
                          cacheRow, example, Chars(<<"t">>), preview.at + elapsed,
                          [selectFails |-> selectFails, first |-> fetches[1],
                           second |-> fetches[2], uploadError |-> s.uploadError,
                           publicUrl |-> s.publicUrl, probeOk |-> s.probeOk,
                           signedUrl |-> s.signedUrl, updateFails |-> s.updateFails])} :
             /\ cacheRow' = out.row
             /\ download' = out.download
             /\ preview' = [calls |-> preview.calls + 1, at |-> preview.at + elapsed,
                            example |-> example, prevRow |-> cacheRow,
                            selectFails |-> selectFails, path |-> out.path,
                            result |-> out.result]
    /\ UNCHANGED <<editorVars, titledScreen, lastTitleEdit, webhookSubscription,
                   activeWebhook, banner, localStorage, now, webApp, provider>>

\* tryDownloadBinary called on its own, with or without a token
CallTryDownload ==
    /\ download = JsUndefined /\ preview.calls = 0
    /\ \E accessToken \in {JsUndefined, Chars(<<>>), Chars(<<"t">>)},
          first, second \in {[kind |-> "ok", status |-> 200, size |-> 1],
                             [kind |-> "http", status |-> 403, size |-> 0],
                             [kind |-> "http", status |-> 404, size |-> 0],
                             [kind |-> "throw", status |-> 0, size |-> 0]} :
          download' = tryDownloadBinary(accessToken, first, second)
    /\ UNCHANGED <<editorVars, cacheRow, preview, titledScreen, lastTitleEdit,
                   webhookSubscription, activeWebhook, banner, localStorage, now, webApp,
                   provider>>

PreviewSpec == PreviewInit /\ [][CallEnsurePreview \/ CallTryDownload]_vars

\* C27: ensureHeaderMediaPreviewUrl returns the cached URL without downloading
\* only when the cached URL is non-empty, the stored header_media_hash equals
\* the hash of the current header example and the cached expiry, if any, is in
\* the future; otherwise it re-hosts.  It writes the cache row (url, expiry,
\* hash) only after a final URL was obtained, and on every failure path
\* (example that is not http, download failure, size above the limit, upload
\* error, no usable URL) it returns null and leaves the cache row unwritten.
C27_PreviewCache ==
    preview.calls > 0 =>
        LET row == preview.prevRow
            hit == /\ row.url.type = "string" /\ row.url.chars # <<>>
                   /\ row.header_media_hash.type = "string"
                   /\ row.header_media_hash.chars = <<"#">> \o preview.example.chars
                   /\ row.expiresAt.type = "date" => row.expiresAt.ms > preview.at
            http == normalize(SubSeq(preview.example.chars, 1, 4)) = <<"h", "t", "t", "p">>
            downloaded == download.type # "undefined"
        IN /\ (preview.result # JsNull /\ ~downloaded) =>
                 /\ hit
                 /\ preview.result.url = row.url
                 /\ preview.result.expiresAt = row.expiresAt
                 /\ cacheRow = row
           /\ (http /\ hit /\ ~preview.selectFails) =>
                 (preview.result # JsNull /\ ~downloaded)
           /\ (http /\ ~hit) => (downloaded /\ Len(download.requests) >= 1)
           /\ cacheRow # row =>
                 /\ preview.result # JsNull
                 /\ downloaded /\ download.result.ok
                 /\ cacheRow = [url |-> preview.result.url,
                                expiresAt |-> preview.result.expiresAt,
                                header_media_hash |->
                                    Chars(<<"#">> \o preview.example.chars)]
           /\ (\/ ~http
               \/ downloaded /\ ~download.result.ok
               \/ downloaded /\ download.result.size > MEDIA_REHOST_MAX_BYTES
               \/ preview.path \in {"not-http", "download", "size", "upload", "no-url"}) =>
                 /\ preview.result = JsNull
                 /\ cacheRow = row
           /\ preview.result = JsNull => cacheRow = row

C27_Witness ==
    /\ preview.calls = 2
    /\ preview.path = "cached"
    /\ download.type = "undefined"
    /\ preview.prevRow.expiresAt.type = "date"
    /\ preview.prevRow.expiresAt.ms = preview.at + 1
    /\ preview.result.url = Chars(<<"s", "i", "g">>)

\* C28: tryDownloadBinary sends the WhatsApp token only after an
\* unauthenticated attempt to the same URL returned a non-ok response; it makes
\* at most two requests, never sends Authorization when the first attempt
\* succeeded or no token was given, and never throws: a network error or a
\* timeout yields { ok: false, status: 0 }.
C28_TokenOnlyAfterRefusal ==
    download.type # "undefined" =>
        LET given == download.token.type = "string" /\ download.token.chars # <<>>
            n == Len(download.requests)
        IN /\ n \in {1, 2}
           /\ download.requests[1] = "none"
           /\ n = 2 =>
                 /\ download.requests[2] = "Bearer"
                 /\ given
                 /\ download.first.kind = "http"
                 /\ download.result =
                       IF download.second.kind = "throw"
                       THEN [ok |-> FALSE, status |-> 0, size |-> 0]
                       ELSE [ok |-> download.second.kind = "ok",
                             status |-> download.second.status,
                             size |-> download.second.size]
           /\ (download.first.kind = "ok" \/ ~given) =>
                 /\ n = 1
                 /\ download.result.ok = (download.first.kind = "ok")
           /\ (download.first.kind = "http" /\ given) => n = 2
           /\ download.first.kind = "throw" =>
                 (n = 1 /\ download.result = [ok |-> FALSE, status |-> 0, size |-> 0])

C28_Witness ==
    /\ download.type # "undefined"
    /\ Len(download.requests) = 2
    /\ download.first.kind = "http"
    /\ download.result.ok
    /\ preview.calls = 0

====
